---- MODULE Spec2Model ----
(***************************************************************************)
(* Catalog reconciliation engine of the recipe importer:                   *)
(*   api/recipe_importer/scripts/recipe_sync.py          (run_sync)        *)
(*   api/recipe_importer/scripts/recipe_sync_tracker.py  (tracker file)    *)
(*   api/recipe_importer/scripts/recipe_notion_adapter.py (destination)    *)
(*   api/recipe_importer/scripts/import_csv_to_tracker.py (CSV seeding)    *)
(*                                                                         *)
(* The tracker file, the destination store and the source catalog are the  *)
(* state; one run of run_sync is a sequence of steps: the start (token,    *)
(* tracker load, list fetch) and one step per loop iteration (normal loop, *)
(* retry loop, deletion sweep); the step that ends a loop also takes the   *)
(* loop exit (the sweep set, the return).                                  *)
(*                                                                         *)
(* Six parts of the engine are also specified on their own:                *)
(*   SpecUpsert   the tracker functions (recipe_sync_tracker.py)           *)
(*   SpecFetch    the source client and its token refresh (whisk_fetch.py) *)
(*   SpecLimiter  the gate in front of the destination                     *)
(*                (notion_handlers/rate_limiter.py, notion_loader.py,      *)
(*                 notion_image_uploader.py)                               *)
(*   SpecPure     the functions without side effects: Phase 1 validation   *)
(*                (recipe_sync.py) and category resolution                 *)
(*                (whisk_collections.py, whisk_create.py, whisk_handler.py)*)
(*   SpecPaging   the list-paging loop of a normal run (recipe_sync.py),   *)
(*                with weak fairness of the loop                           *)
(*   SpecOverlap  two runs calling the tracker functions at the same time  *)
(*                (recipe_sync_tracker.py, endpoints/sync_recipes.py)      *)
(* In each specification the variables of the others stay at rest.         *)
(***************************************************************************)
EXTENDS Integers, Sequences, FiniteSets, TLC

\* ------------------------------------------------------------------ bounds
MaxRuns == 2        \* number of run_sync invocations explored
MaxPage == 6        \* destination page ids that can be handed out
MaxFails == 1       \* kinds of call that fail during one loop iteration

\* The source ids of the entries under study; the documents that exist at
\* the start have the page ids of Ids, new documents get the following ones.
Ids == {1, 2}
FirstNewPage == Cardinality(Ids) + 1
NoPage == 0         \* notion_page_id = None

\* ------------------------------------------------------- source catalog
\* What the source returns for one id.  In the list view: content.source.
\* display_name, content.images[0].url, item.collections (and their names),
\* content.ingredients, content.recipe_videos; in the detail view:
\* recipe.instructions.steps (and step images), recipe.saved.collection_ids;
\* the review endpoint: posts.
EntryKinds == {"absent", "plain", "video", "photos", "made",
               "noingredients", "nosteps", "nonames"}

Valid ==
    [present |-> TRUE, source_name |-> TRUE, image |-> TRUE,
     collections |-> TRUE, collection_names |-> TRUE, ingredients |-> TRUE,
     steps |-> TRUE, step_images |-> FALSE, video |-> FALSE,
     reviewed |-> FALSE, saved_names |-> TRUE]

\* The source is not changed by the engine: its content is an input.
Catalogs == [Ids -> EntryKinds]

Entry(kind) ==
    CASE kind = "absent"        -> [Valid EXCEPT !.present = FALSE]
      [] kind = "plain"         -> Valid
      [] kind = "video"         -> [Valid EXCEPT !.video = TRUE]
      [] kind = "photos"        -> [Valid EXCEPT !.step_images = TRUE]
      [] kind = "made"          -> [Valid EXCEPT !.reviewed = TRUE]
      [] kind = "noingredients" -> [Valid EXCEPT !.ingredients = FALSE]
      [] kind = "nosteps"       -> [Valid EXCEPT !.steps = FALSE]
      [] kind = "nonames"       -> [Valid EXCEPT !.collection_names = FALSE,
                                                !.saved_names = FALSE]

\* ------------------------------------------------------------ validation
\* collections is "None" (retry: check deferred), "empty" or "nonempty".
\* The checks with the ingredient check ahead of the category check.
validate_ingredients_first(content, collections) ==
    IF ~content.source_name THEN [is_valid |-> FALSE, reason |-> "Missing Source Name"]
    ELSE IF ~content.image THEN [is_valid |-> FALSE, reason |-> "Missing Image"]
    ELSE IF ~content.ingredients THEN [is_valid |-> FALSE, reason |-> "Missing Ingredients"]
    ELSE IF collections = "empty" THEN [is_valid |-> FALSE, reason |-> "Missing Category"]
    ELSE [is_valid |-> TRUE, reason |-> "None"]

validate_list_requirements(content, collections) ==
    IF ~content.source_name THEN [is_valid |-> FALSE, reason |-> "Missing Source Name"]
    ELSE IF ~content.image THEN [is_valid |-> FALSE, reason |-> "Missing Image"]
    ELSE IF collections = "empty" THEN [is_valid |-> FALSE, reason |-> "Missing Category"]
    ELSE IF ~content.ingredients THEN [is_valid |-> FALSE, reason |-> "Missing Ingredients"]
    ELSE [is_valid |-> TRUE, reason |-> "None"]

\* details is [ok |-> FALSE] for {} (fetch failed) or [ok |-> TRUE, recipe |-> e].
validate_instructions(details) ==
    IF ~details.ok THEN [is_valid |-> FALSE, reason |-> "Failed to fetch details"]
    ELSE IF ~details.recipe.steps THEN [is_valid |-> FALSE, reason |-> "Missing Instructions"]
    ELSE [is_valid |-> TRUE, reason |-> "None"]

\* Lookup of a collection name by its id: TRUE when the saved collection ids
\* of the entry resolve to at least one name.
get_collection_name_by_id(content) == content.saved_names

\* The fields of the internal schema that the engine's decisions depend on.
\* instructions carry only text and group (no image_url): step images go to
\* the separate instruction_images list.
transform_whisk_to_internal(content, collections, details) ==
    [imageUrl |-> content.image,
     video_url |-> content.video,
     instructions_image_url |-> FALSE,
     instruction_images |-> details.ok /\ details.recipe.step_images,
     category |-> IF collections = "nonempty" THEN content.collection_names
                  ELSE IF details.ok THEN get_collection_name_by_id(details.recipe)
                  ELSE FALSE]

\* --------------------------------------------------------------- tracker
\* A tracker file is a function from a set of ids to records.  was_made is
\* FALSE when the key is absent from the record (record.get('was_made')).
EmptyTracker == [i \in {} |-> 0]

load_tracker(file) == file

remove_record(file, whisk_recipe_id) ==
    [i \in (DOMAIN file) \ {whisk_recipe_id} |-> file[i]]

Put(file, whisk_recipe_id, record) ==
    [i \in (DOMAIN file) \cup {whisk_recipe_id} |->
        IF i = whisk_recipe_id THEN record ELSE file[i]]

\* The parameters add_or_update_record declares.
AddOrUpdateParams ==
    {"whisk_recipe_id", "notion_page_id", "image_type", "status",
     "recipe_video", "instruction_photos"}

\* The acceptance of a call: Python raises TypeError, before the body runs,
\* for a keyword argument that is not a declared parameter.
AcceptsAnyKeyword(kw) == TRUE

AcceptsKeywords(kw) == kw \subseteq AddOrUpdateParams

\* kw: the keyword names of the call; args: the values of those that are
\* supplied and not None (notion_page_id None is NoPage).  The result is the
\* file after the call and whether the call raised.
add_or_update_record(file, whisk_recipe_id, notion_page_id, kw, args) ==
    IF ~AcceptsKeywords(kw) THEN [raised |-> TRUE, file |-> file]
    ELSE
      LET data == load_tracker(file)
          has == whisk_recipe_id \in DOMAIN data
          final_image_type ==
              IF "image_type" \in DOMAIN args THEN args.image_type
              ELSE IF has THEN data[whisk_recipe_id].image_type ELSE "file_upload"
          final_recipe_video ==
              IF "recipe_video" \in DOMAIN args THEN args.recipe_video
              ELSE IF has THEN data[whisk_recipe_id].recipe_video ELSE FALSE
          final_instruction_photos ==
              IF "instruction_photos" \in DOMAIN args THEN args.instruction_photos
              ELSE IF has THEN data[whisk_recipe_id].instruction_photos ELSE FALSE
          record ==
              [notion_page_id |-> notion_page_id,
               image_type |-> final_image_type,
               recipe_video |-> final_recipe_video,
               instruction_photos |-> final_instruction_photos,
               was_made |-> FALSE,
               status |-> IF "status" \in DOMAIN args THEN args.status ELSE "new"]
      IN [raised |-> FALSE, file |-> Put(data, whisk_recipe_id, record)]


\* ----------------------------------------------------------- destination
\* The threaded value s carries what one loop iteration reads and writes:
\* the tracker file, the destination documents, the call log, the run
\* statistics, the set processed_ids, the locals updates_performed and
\* recreation_triggered, the value returned by the last call (ret) and
\* whether an exception is propagating (exc).  fails is the set of kinds of
\* call that fail during this iteration.
\* Statements run in order: x is computed once and handed to what follows.
Eval(x, K(_)) == CHOOSE r \in {K(v) : v \in {x}} : TRUE

WriteOps == {"upload", "create", "update", "append", "archive"}
FailModes == {"details", "upload", "create", "create_noid",
              "update", "append", "archive"}

Log(s, op, wid, ok) ==
    [s EXCEPT !.calls = Append(@, [op |-> op, wid |-> wid, by |-> s.by, ok |-> ok])]

NextPageId(d) == FirstNewPage + Cardinality({q \in DOMAIN d : q >= FirstNewPage})

\* upload_image_from_url: returns the file id, or None on any failure.
upload_image_from_url(s, wid) ==
    IF s.exc THEN s
    ELSE LET ok == "upload" \notin s.fails
         IN [Log(s, "upload", wid, ok) EXCEPT !.ret = ok]

\* create_page_in_data_source: raises on an API error; the response carries
\* the id of the new page (or no id: ret = NoPage).
create_page_in_data_source(s, wid) ==
    IF s.exc THEN s
    ELSE IF "create" \in s.fails THEN [Log(s, "create", wid, FALSE) EXCEPT !.exc = TRUE]
    ELSE IF "create_noid" \in s.fails THEN [Log(s, "create", wid, FALSE) EXCEPT !.ret = NoPage]
    ELSE LET p == NextPageId(s.docs)
         IN [Log(s, "create", wid, TRUE) EXCEPT
                !.docs = [q \in (DOMAIN s.docs) \cup {p} |->
                            IF q = p THEN [wid |-> wid, archived |-> FALSE]
                            ELSE s.docs[q]],
                !.ret = p]

\* update_page_properties / append_block_children: raise on an API error
\* (a page id of None is one).
update_page_properties(s, page_id, wid) ==
    IF s.exc THEN s
    ELSE IF "update" \in s.fails \/ page_id = NoPage
         THEN [Log(s, "update", wid, FALSE) EXCEPT !.exc = TRUE]
    ELSE Log(s, "update", wid, TRUE)

append_block_children(s, page_id, wid) ==
    IF s.exc THEN s
    ELSE IF "append" \in s.fails \/ page_id = NoPage
         THEN [Log(s, "append", wid, FALSE) EXCEPT !.exc = TRUE]
    ELSE Log(s, "append", wid, TRUE)

archive_page(s, page_id, wid) ==
    IF s.exc THEN s
    ELSE IF "archive" \in s.fails \/ page_id \notin DOMAIN s.docs
         THEN [Log(s, "archive", wid, FALSE) EXCEPT !.exc = TRUE]
    ELSE [Log(s, "archive", wid, TRUE) EXCEPT !.docs[page_id].archived = TRUE]

\* A call of add_or_update_record made by the engine: the exception of the
\* call propagates to the caller.
TrackerUpsert(s, wid, notion_page_id, kw, args) ==
    IF s.exc THEN s
    ELSE LET r == add_or_update_record(s.file, wid, notion_page_id, kw, args)
         IN IF r.raised THEN [s EXCEPT !.exc = TRUE]
            ELSE [s EXCEPT !.file = r.file]

ArchiveOnly(s, page_id, whisk_id) == archive_page(s, page_id, whisk_id)

delete_recipe_from_notion(s, page_id, whisk_id) ==
    Eval(archive_page(s, page_id, whisk_id), LAMBDA s1 :
        IF s1.exc THEN s1
        ELSE [s1 EXCEPT !.file = remove_record(@, whisk_id)])

\* ret = TRUE / FALSE as returned; exc when the call raised.
save_recipe_to_notion(s, recipe_data, whisk_id, was_made) ==
    IF s.exc THEN s
    ELSE
      Eval(IF recipe_data.imageUrl THEN upload_image_from_url(s, whisk_id)
           ELSE [s EXCEPT !.ret = FALSE], LAMBDA s1 :
      Eval(create_page_in_data_source(s1, whisk_id), LAMBDA s2 :
        IF s2.exc THEN s2
        ELSE IF s2.ret = NoPage THEN [s2 EXCEPT !.ret = FALSE]
        ELSE Eval(TrackerUpsert(s2, whisk_id, s2.ret,
                    {"whisk_recipe_id", "notion_page_id", "image_type", "status",
                     "recipe_video", "instruction_photos", "was_made", "recipe_title"},
                    [image_type |-> IF s1.ret THEN "file_upload" ELSE "none",
                     status |-> "new",
                     recipe_video |-> recipe_data.video_url,
                     instruction_photos |-> recipe_data.instructions_image_url]),
                  LAMBDA s3 : IF s3.exc THEN s3 ELSE [s3 EXCEPT !.ret = TRUE])))

update_recipe_image_in_notion(s, page_id, whisk_id) ==
    IF s.exc THEN s
    ELSE
      Eval(upload_image_from_url(s, whisk_id), LAMBDA s1 :
        IF ~s1.ret THEN s1
        ELSE Eval(update_page_properties(s1, page_id, whisk_id), LAMBDA s2 :
             Eval(TrackerUpsert(s2, whisk_id, page_id,
                    {"whisk_recipe_id", "notion_page_id", "image_type", "status",
                     "recipe_title"},
                    [image_type |-> "file_upload", status |-> "updated"]),
                  LAMBDA s3 : IF s3.exc THEN s3 ELSE [s3 EXCEPT !.ret = TRUE])))

update_recipe_video_in_notion(s, page_id, whisk_id) ==
    IF s.exc THEN s
    ELSE
      Eval(update_page_properties(s, page_id, whisk_id), LAMBDA s1 :
      Eval(append_block_children(s1, page_id, whisk_id), LAMBDA s2 :
      Eval(TrackerUpsert(s2, whisk_id, page_id,
             {"whisk_recipe_id", "notion_page_id", "recipe_video", "status",
              "recipe_title"},
             [recipe_video |-> TRUE, status |-> "updated"]),
           LAMBDA s3 : IF s3.exc THEN s3 ELSE [s3 EXCEPT !.ret = TRUE])))

update_recipe_made_status_in_notion(s, page_id, whisk_id) ==
    IF s.exc THEN s
    ELSE
      Eval(update_page_properties(s, page_id, whisk_id), LAMBDA s1 :
      Eval(TrackerUpsert(s1, whisk_id, page_id,
             {"whisk_recipe_id", "notion_page_id", "was_made", "status",
              "recipe_title"},
             [status |-> "updated"]),
           LAMBDA s2 : IF s2.exc THEN s2 ELSE [s2 EXCEPT !.ret = TRUE]))

\* ---------------------------------------------------------------- source
\* fetch_recipe_details: {} on any failure (also for an id the source does
\* not have); fetch_recipe_review_status: False on any failure, which is the
\* value it returns for an entry without reviews.
fetch_recipe_details(s, recipe_id, e) ==
    IF s.exc THEN s
    ELSE LET ok == "details" \notin s.fails /\ e.present
         IN [Log(s, "details", recipe_id, ok) EXCEPT
                !.ret = IF ok THEN [ok |-> TRUE, recipe |-> e] ELSE [ok |-> FALSE]]

fetch_recipe_review_status(s, recipe_id, e) ==
    IF s.exc THEN s
    ELSE [Log(s, "review", recipe_id, TRUE) EXCEPT
             !.ret = e.present /\ e.reviewed]


\* ------------------------------------------------------------- run state
VARIABLES
    tracker_file,       \* data/sync_status.json
    docs,               \* destination documents: page id -> [wid, archived]
    catalog,            \* the source: id -> kind of entry
    phase,              \* "idle", "process", "retry", "sweep"
    full_sync,          \* arguments of the current (or last) run
    retry_rejected,
    tracker,            \* run_sync's in-memory tracker, loaded at the start
    all_whisk_recipes,  \* the fetched list (ids, in list order)
    idx,                \* position of the normal loop in all_whisk_recipes
    processed_ids,
    todo,               \* ids the retry loop / the sweep has still to visit
    stats,
    calls,              \* calls made by the current (or last) run
    outcome,            \* of the last run: "none", "returned", "raised", "authfail"
    runs,               \* number of runs started
    clean               \* every run so far was a normal run that returned, with
                        \* every call succeeding, and no CSV import took place

runVars == <<tracker_file, docs, catalog, phase, full_sync, retry_rejected, tracker,
             all_whisk_recipes, idx, processed_ids, todo, stats, calls, outcome,
             runs, clean>>

\* The tracker functions on their own (specification SpecUpsert).
VARIABLES
    up_file,            \* the tracker file the calls work on
    up_before,          \* the file before the last call
    up_call,            \* the last call: its arguments and whether it raised
    up_count            \* number of calls made

upsertVars == <<up_file, up_before, up_call, up_count>>

NoCall == [made |-> FALSE]

UpsertParked ==
    /\ up_file = EmptyTracker
    /\ up_before = EmptyTracker
    /\ up_call = NoCall
    /\ up_count = 0

\* The source client on its own (specification SpecFetch).
VARIABLES
    wf_valid,           \* the access tokens the source accepts
    wf_issued,          \* number of tokens get_access_token has handed out
    wf_log,             \* the requests sent to the source during the run
    wf_refreshes,       \* calls of get_access_token made on a 401 during the run
    wf_state,           \* "listing", "items", "raised", "returned"
    wf_last             \* the last fetch call and what came of it

fetchVars == <<wf_valid, wf_issued, wf_log, wf_refreshes, wf_state, wf_last>>

FetchParked ==
    /\ wf_valid = {}
    /\ wf_issued = 0
    /\ wf_log = <<>>
    /\ wf_refreshes = 0
    /\ wf_state = "returned"
    /\ wf_last = NoCall

\* The gate in front of the destination on its own (specification
\* SpecLimiter).  Tokens are counted in tenths, time in ticks of 0.1 s.
VARIABLES
    rl_tokens,          \* tokens (module global of rate_limiter.py)
    rl_errors,          \* stats["errors"] of the loop the calls are made in
    rl_calls,           \* number of calls made
    rl_last             \* the last call and what came of it

limiterVars == <<rl_tokens, rl_errors, rl_calls, rl_last>>

LimiterParked ==
    /\ rl_tokens = 0
    /\ rl_errors = 0
    /\ rl_calls = 0
    /\ rl_last = NoCall

\* The functions without side effects on their own (specification SpecPure).
VARIABLES
    pf_last             \* the last application: function, arguments, result

pureVars == <<pf_last>>

PureParked == pf_last = NoCall

\* The list-paging loop of a normal run on its own (specification
\* SpecPaging).
VARIABLES
    pg_full_sync,       \* the run's full_sync argument
    pg_limit,           \* WHISK_FETCH_LIMIT
    pg_cursor,          \* next_cursor (NoCursor for None)
    pg_fetched,         \* len(all_whisk_recipes), counted up to pg_limit
    pg_requests,        \* pages requested, counted up to MaxListRequests
    pg_state            \* "paging", "done"

pagingVars == <<pg_full_sync, pg_limit, pg_cursor, pg_fetched, pg_requests, pg_state>>

NoCursor == 0

PagingParked ==
    /\ pg_full_sync = FALSE
    /\ pg_limit = 1
    /\ pg_cursor = NoCursor
    /\ pg_fetched = 0
    /\ pg_requests = 0
    /\ pg_state = "done"

\* Two runs working on the tracker file at the same time (specification
\* SpecOverlap).
VARIABLES
    ov_file,            \* the tracker file
    ov_start,           \* the file before the two calls
    ov_op,              \* per run: the tracker function it calls
    ov_pc,              \* per run: "call", "loaded", "done"
    ov_data             \* per run: the dict its call has loaded

overlapVars == <<ov_file, ov_start, ov_op, ov_pc, ov_data>>

OverlapParked ==
    /\ ov_file = EmptyTracker
    /\ ov_start = EmptyTracker
    /\ ov_op = <<>>
    /\ ov_pc = <<>>
    /\ ov_data = <<>>

RestParked == PagingParked /\ OverlapParked

\* What a run of run_sync does not touch.
aside == <<upsertVars, fetchVars, limiterVars, pureVars, pagingVars, overlapVars>>

AsideParked == UpsertParked /\ FetchParked /\ LimiterParked /\ PureParked /\ RestParked

vars == <<runVars, aside>>

ZeroStats ==
    [matched |-> 0, updated |-> 0, created |-> 0, deleted |-> 0, errors |-> 0,
     rejected |-> 0, retried_success |-> 0, rejection_details |-> <<>>]

AllOk(log) == \A k \in 1..Len(log) : log[k].ok

\* Tracker records a tracker file holds when the engine starts.
Mirrored(page, status, image_type, flag) ==
    [notion_page_id |-> page, image_type |-> image_type, recipe_video |-> flag,
     instruction_photos |-> flag, was_made |-> flag, status |-> status]

InitRecords(i) ==
    {Mirrored(i, "new", "file_upload", FALSE),
     Mirrored(i, "updated", "external", FALSE),
     Mirrored(NoPage, "rejected", "file_upload", FALSE)}

InitTrackers ==
    UNION {{f \in [S -> UNION {InitRecords(i) : i \in S}] :
              \A i \in S : f[i] \in InitRecords(i)} : S \in SUBSET Ids}

\* The destination holds one live document for every mirrored record.
InitDocs(file) ==
    [p \in {i \in DOMAIN file : file[i].notion_page_id # NoPage} |->
        [wid |-> p, archived |-> FALSE]]

Init ==
    /\ tracker_file \in InitTrackers
    /\ docs = InitDocs(tracker_file)
    /\ catalog \in Catalogs
    /\ phase = "idle"
    /\ full_sync = FALSE
    /\ retry_rejected = FALSE
    /\ tracker = EmptyTracker
    /\ all_whisk_recipes = <<>>
    /\ idx = 1
    /\ processed_ids = {}
    /\ todo = {}
    /\ stats = ZeroStats
    /\ calls = <<>>
    /\ outcome = "none"
    /\ runs = 0
    /\ clean = TRUE
    /\ AsideParked


\* ------------------------------------------------------- loop iterations
Reject(s, whisk_id, reason) ==
    [s EXCEPT !.stats.rejected = @ + 1,
              !.stats.rejection_details = Append(@, [id |-> whisk_id, reason |-> reason])]

CountError(s) == [s EXCEPT !.stats.errors = @ + 1]

\* except Exception: stats["errors"] += 1
Catch(s) == IF s.exc THEN [CountError(s) EXCEPT !.exc = FALSE] ELSE s

RejectKeywords ==
    {"whisk_recipe_id", "notion_page_id", "status", "was_made", "recipe_title"}

\* Scenario D of an existing record: delete and re-create.
ScenarioD(s, whisk_id, e, local_record, notion_page_id, was_made, collections) ==
    IF s.exc \/ local_record.instruction_photos THEN s
    ELSE
      Eval(fetch_recipe_details(s, whisk_id, e), LAMBDA s1 :
        LET details == s1.ret
            has_step_photos == details.ok /\ details.recipe.step_images
            recipe_data == transform_whisk_to_internal(e, collections, details)
        IN IF ~has_step_photos THEN s1
           ELSE Eval(delete_recipe_from_notion(s1, notion_page_id, whisk_id), LAMBDA s2 :
                Eval(save_recipe_to_notion(s2, recipe_data, whisk_id, was_made), LAMBDA s3 :
                  IF s3.exc THEN s3
                  ELSE IF s3.ret THEN [s3 EXCEPT !.updates_performed = TRUE,
                                                 !.recreation_triggered = TRUE]
                  ELSE CountError(s3))))

\* if success: updates_performed = True / else: stats["errors"] += 1
Performed(s) ==
    IF s.exc THEN s
    ELSE IF s.ret THEN [s EXCEPT !.updates_performed = TRUE]
    ELSE CountError(s)

\* Scenario A: image_type external -> file_upload.
ScenarioA(s, whisk_id, e, local_record, notion_page_id) ==
    IF s.exc \/ local_record.image_type # "external" THEN s
    ELSE IF ~(e.image /\ notion_page_id # NoPage) THEN s
    ELSE Eval(update_recipe_image_in_notion(s, notion_page_id, whisk_id),
              LAMBDA s1 : Performed(s1))

\* Scenario B: video link the record does not have.
ScenarioB(s, whisk_id, e, local_record, notion_page_id) ==
    IF s.exc \/ ~(e.video /\ ~local_record.recipe_video) THEN s
    ELSE Eval(update_recipe_video_in_notion(s, notion_page_id, whisk_id),
              LAMBDA s1 : Performed(s1))

\* Scenario C: reviewed at the source, not in the record.
ScenarioC(s, whisk_id, local_record, notion_page_id, was_made) ==
    IF s.exc \/ ~(was_made /\ ~local_record.was_made) THEN s
    ELSE Eval(update_recipe_made_status_in_notion(s, notion_page_id, whisk_id),
              LAMBDA s1 : Performed(s1))

\* Every existing entry counted as updated.
CountEveryExistingUpdated(s) ==
    IF s.exc THEN s
    ELSE [s EXCEPT !.stats.updated = @ + 1]

\* if updates_performed: stats["updated"] += 1 / else: stats["matched"] += 1
CountExisting(s) ==
    IF s.exc THEN s
    ELSE IF s.updates_performed THEN [s EXCEPT !.stats.updated = @ + 1]
    ELSE [s EXCEPT !.stats.matched = @ + 1]

ExistingRecipe(s, whisk_id, e, local_record, notion_page_id, was_made, collections) ==
    Eval(ScenarioD(s, whisk_id, e, local_record, notion_page_id, was_made, collections),
         LAMBDA sd :
      IF sd.recreation_triggered THEN CountExisting(sd)
      ELSE Eval(ScenarioA(sd, whisk_id, e, local_record, notion_page_id), LAMBDA sa :
           Eval(ScenarioB(sa, whisk_id, e, local_record, notion_page_id), LAMBDA sb :
           Eval(ScenarioC(sb, whisk_id, local_record, notion_page_id, was_made),
                LAMBDA sc : CountExisting(sc)))))

NewRecipe(s, whisk_id, e, was_made, collections) ==
    Eval(fetch_recipe_details(s, whisk_id, e), LAMBDA s1 :
      LET details == s1.ret
          v == validate_instructions(details)
          recipe_data == transform_whisk_to_internal(e, collections, details)
      IN IF s1.exc THEN s1
         ELSE IF ~v.is_valid
              THEN Eval(Reject(s1, whisk_id, v.reason), LAMBDA s2 :
                     TrackerUpsert(s2, whisk_id, NoPage, RejectKeywords,
                                   [status |-> "rejected"]))
         ELSE IF ~recipe_data.category
              THEN Eval(Reject(s1, whisk_id,
                               "Missing Category (Detail view mapping failed)"),
                        LAMBDA s2 :
                     TrackerUpsert(s2, whisk_id, NoPage, RejectKeywords,
                                   [status |-> "rejected"]))
         ELSE Eval(save_recipe_to_notion(s1, recipe_data, whisk_id, was_made), LAMBDA s2 :
                IF s2.exc THEN s2
                ELSE IF s2.ret THEN [s2 EXCEPT !.stats.created = @ + 1]
                ELSE CountError(s2)))

\* The iteration with every entry taken through the create branch (Phase 2
\* included), whatever its record.
ProcessItemValidatesExisting(s, whisk_id, e, mem) ==
    LET collections == IF e.collections THEN "nonempty" ELSE "empty"
        v == validate_list_requirements(e, collections)
    IN IF ~v.is_valid
       THEN Eval(Reject(s, whisk_id, v.reason), LAMBDA s1 :
            Eval(TrackerUpsert(s1, whisk_id, NoPage,
                    {"whisk_recipe_id", "notion_page_id", "image_type", "status",
                     "recipe_video", "instruction_photos", "was_made", "recipe_title"},
                    [status |-> "rejected", recipe_video |-> FALSE,
                     instruction_photos |-> FALSE]),
                 LAMBDA s2 : Catch(s2)))
       ELSE
         LET has == whisk_id \in DOMAIN mem
             notion_page_id == IF has THEN mem[whisk_id].notion_page_id ELSE NoPage
             should_check_made == ~(has /\ mem[whisk_id].was_made)
         IN Eval([s EXCEPT !.processed_ids = @ \cup {whisk_id}], LAMBDA s1 :
            Eval(IF should_check_made THEN fetch_recipe_review_status(s1, whisk_id, e)
                 ELSE [s1 EXCEPT !.ret = TRUE], LAMBDA s2 :
            Eval(IF FALSE
                 THEN ExistingRecipe(s2, whisk_id, e, mem[whisk_id], notion_page_id,
                                     s2.ret, collections)
                 ELSE NewRecipe(s2, whisk_id, e, s2.ret, collections),
                 LAMBDA s3 : Catch(s3))))

\* One iteration of "for item in all_whisk_recipes" (the try block and its
\* except clause); mem is the in-memory tracker.
ProcessItem(s, whisk_id, e, mem) ==
    LET collections == IF e.collections THEN "nonempty" ELSE "empty"
        v == validate_list_requirements(e, collections)
    IN IF ~v.is_valid
       THEN Eval(Reject(s, whisk_id, v.reason), LAMBDA s1 :
            Eval(TrackerUpsert(s1, whisk_id, NoPage,
                    {"whisk_recipe_id", "notion_page_id", "image_type", "status",
                     "recipe_video", "instruction_photos", "was_made", "recipe_title"},
                    [status |-> "rejected", recipe_video |-> FALSE,
                     instruction_photos |-> FALSE]),
                 LAMBDA s2 : Catch(s2)))
       ELSE
         LET has == whisk_id \in DOMAIN mem
             notion_page_id == IF has THEN mem[whisk_id].notion_page_id ELSE NoPage
             should_check_made == ~(has /\ mem[whisk_id].was_made)
         IN Eval([s EXCEPT !.processed_ids = @ \cup {whisk_id}], LAMBDA s1 :
            Eval(IF should_check_made THEN fetch_recipe_review_status(s1, whisk_id, e)
                 ELSE [s1 EXCEPT !.ret = TRUE], LAMBDA s2 :
            Eval(IF has /\ mem[whisk_id].status # "rejected"
                 THEN ExistingRecipe(s2, whisk_id, e, mem[whisk_id], notion_page_id,
                                     s2.ret, collections)
                 ELSE NewRecipe(s2, whisk_id, e, s2.ret, collections),
                 LAMBDA s3 : Catch(s3))))

\* The retry iteration with a failed detail fetch counted as an error.
RetryItemCountsFailedFetch(s, whisk_id, e) ==
    Eval(fetch_recipe_details(s, whisk_id, e), LAMBDA s1 :
      LET details == s1.ret
      IN IF ~details.ok THEN CountError(s1)
         ELSE
           LET content == details.recipe
               v1 == validate_list_requirements(content, "None")
               v2 == validate_instructions(details)
               recipe_data == transform_whisk_to_internal(content, "None", details)
           IN IF ~v1.is_valid \/ ~v2.is_valid \/ ~recipe_data.category THEN s1
              ELSE Eval(fetch_recipe_review_status(s1, whisk_id, e), LAMBDA s2 :
                   Eval(save_recipe_to_notion(s2, recipe_data, whisk_id, s2.ret),
                        LAMBDA s3 :
                     IF s3.exc THEN Catch(s3)
                     ELSE IF s3.ret THEN [s3 EXCEPT !.stats.retried_success = @ + 1]
                     ELSE CountError(s3))))

\* One iteration of "for whisk_id in rejected_ids".
RetryItem(s, whisk_id, e) ==
    Eval(fetch_recipe_details(s, whisk_id, e), LAMBDA s1 :
      LET details == s1.ret
      IN IF ~details.ok THEN s1
         ELSE
           LET content == details.recipe
               v1 == validate_list_requirements(content, "None")
               v2 == validate_instructions(details)
               recipe_data == transform_whisk_to_internal(content, "None", details)
           IN IF ~v1.is_valid \/ ~v2.is_valid \/ ~recipe_data.category THEN s1
              ELSE Eval(fetch_recipe_review_status(s1, whisk_id, e), LAMBDA s2 :
                   Eval(save_recipe_to_notion(s2, recipe_data, whisk_id, s2.ret),
                        LAMBDA s3 :
                     IF s3.exc THEN Catch(s3)
                     ELSE IF s3.ret THEN [s3 EXCEPT !.stats.retried_success = @ + 1]
                     ELSE CountError(s3))))

\* The sweep iteration counting a deletion whether or not the delete raised.
SweepItemCountsFailedDelete(s, wid, mem) ==
    LET record == mem[wid]
        page_id == record.notion_page_id
    IN IF record.status = "rejected" THEN s
       ELSE IF page_id = NoPage THEN s
       ELSE Eval(delete_recipe_from_notion(s, page_id, wid), LAMBDA s1 :
              [s1 EXCEPT !.exc = FALSE, !.stats.deleted = @ + 1])

\* One iteration of "for wid in ids_to_delete"; an exception of the delete is
\* logged and not counted.
SweepItem(s, wid, mem) ==
    LET record == mem[wid]
        page_id == record.notion_page_id
    IN IF record.status = "rejected" THEN s
       ELSE IF page_id = NoPage THEN s
       ELSE Eval(delete_recipe_from_notion(s, page_id, wid), LAMBDA s1 :
              IF s1.exc THEN [s1 EXCEPT !.exc = FALSE]
              ELSE [s1 EXCEPT !.stats.deleted = @ + 1])


\* ---------------------------------------------------------------- actions
Start(by, fails) ==
    [file |-> tracker_file, docs |-> docs, calls |-> calls, stats |-> stats,
     processed_ids |-> processed_ids, updates_performed |-> FALSE,
     recreation_triggered |-> FALSE, ret |-> FALSE, exc |-> FALSE,
     by |-> by, fails |-> fails]

Commit(s) ==
    /\ tracker_file' = s.file
    /\ docs' = s.docs
    /\ calls' = s.calls
    /\ stats' = s.stats
    /\ processed_ids' = s.processed_ids
    /\ clean' = (clean /\ AllOk(s.calls))

FailSets == {F \in SUBSET FailModes : Cardinality(F) <= MaxFails}

\* import_csv: the tracker file is rewritten from the rows of a CSV export of
\* the destination; a row without a whisk id or a notion id is skipped.
CsvRowKinds == {"none", "no_notion_id", "external", "file_upload"}

CsvRecord(kind, notion_id) ==
    [notion_page_id |-> notion_id,
     image_type |-> IF kind = "no_notion_id" THEN "external" ELSE kind,
     recipe_video |-> kind = "file_upload",
     instruction_photos |-> kind = "file_upload",
     was_made |-> kind = "file_upload",
     status |-> "imported"]

KeepsEveryRow(kind) == kind # "none"

KeepsRow(kind) == kind \notin {"none", "no_notion_id"}

LivePage(d, wid) ==
    IF \E p \in DOMAIN d : d[p].wid = wid /\ ~d[p].archived
    THEN CHOOSE p \in DOMAIN d : d[p].wid = wid /\ ~d[p].archived
    ELSE NoPage

import_csv(rows, d) ==
    [i \in {j \in DOMAIN rows : KeepsRow(rows[j])} |->
        CsvRecord(rows[i], IF rows[i] = "no_notion_id" THEN NoPage ELSE LivePage(d, i))]

ImportCsv ==
    /\ phase = "idle" /\ runs = 0
    /\ \E rows \in [Ids -> CsvRowKinds] :
          /\ \A i \in Ids : rows[i] \in {"external", "file_upload"} => LivePage(docs, i) # NoPage
          /\ tracker_file' = import_csv(rows, docs)
    /\ clean' = FALSE
    /\ UNCHANGED <<docs, catalog, phase, full_sync, retry_rejected, tracker,
                   all_whisk_recipes, idx, processed_ids, todo, stats, calls, runs,
                   outcome>>
    /\ UNCHANGED aside

\* What follows the normal loop once position i is reached: the next
\* iteration, or "if full_sync:" ids_to_delete = local_ids - processed_ids and
\* the sweep, or "return stats".
AfterLoop(list, i, fs, mem, processed) ==
    IF i <= Len(list)
    THEN phase' = "process" /\ todo' = {} /\ outcome' = "none"
    ELSE IF fs /\ (DOMAIN mem) \ processed # {}
    THEN phase' = "sweep" /\ todo' = (DOMAIN mem) \ processed /\ outcome' = "none"
    ELSE phase' = "idle" /\ todo' = {} /\ outcome' = "returned"

\* What follows an iteration of the retry loop or of the sweep.
AfterItem(loop, rest) ==
    /\ todo' = rest
    /\ IF rest = {} THEN phase' = "idle" /\ outcome' = "returned"
       ELSE phase' = loop /\ outcome' = "none"

\* The abort taken after a first list request.
AuthFailsAfterListFetch ==
    /\ phase = "idle" /\ runs < MaxRuns
    /\ runs' = runs + 1
    /\ clean' = FALSE
    /\ stats' = [ZeroStats EXCEPT !.errors = 1]
    /\ calls' = <<[op |-> "list", wid |-> 0, by |-> "start", ok |-> TRUE]>>
    /\ outcome' = "authfail"
    /\ tracker' = EmptyTracker
    /\ all_whisk_recipes' = <<>>
    /\ idx' = 1
    /\ processed_ids' = {}
    /\ todo' = {}
    /\ UNCHANGED <<tracker_file, docs, catalog, phase, full_sync, retry_rejected>>
    /\ UNCHANGED aside

\* get_access_token fails: return {"errors": 1}; the arguments are not read
\* before.
AuthFails ==
    /\ phase = "idle" /\ runs < MaxRuns
    /\ runs' = runs + 1
    /\ clean' = FALSE
    /\ stats' = [ZeroStats EXCEPT !.errors = 1]
    /\ calls' = <<>>
    /\ outcome' = "authfail"
    /\ tracker' = EmptyTracker
    /\ all_whisk_recipes' = <<>>
    /\ idx' = 1
    /\ processed_ids' = {}
    /\ todo' = {}
    /\ UNCHANGED <<tracker_file, docs, catalog, phase, full_sync, retry_rejected>>
    /\ UNCHANGED aside

AllIds(mem) == DOMAIN mem

RejectedIds(mem) == {k \in DOMAIN mem : mem[k].status = "rejected"}

\* run_sync(retry_rejected=True) up to the retry loop.
StartRetry ==
    /\ phase = "idle" /\ runs < MaxRuns
    /\ \E fs \in BOOLEAN : full_sync' = fs
    /\ retry_rejected' = TRUE
    /\ runs' = runs + 1
    /\ clean' = FALSE
    /\ tracker' = load_tracker(tracker_file)
    /\ stats' = ZeroStats
    /\ calls' = <<>>
    /\ AfterItem("retry", RejectedIds(load_tracker(tracker_file)))
    /\ all_whisk_recipes' = <<>>
    /\ idx' = 1
    /\ processed_ids' = {}
    /\ UNCHANGED <<tracker_file, docs, catalog>>
    /\ UNCHANGED aside

\* The ids the list endpoint returns, in list order.
RECURSIVE ListOf(_, _)
ListOf(cat, i) ==
    IF i \notin Ids THEN <<>>
    ELSE IF cat[i] = "absent" THEN ListOf(cat, i + 1)
    ELSE <<i>> \o ListOf(cat, i + 1)

\* run_sync(retry_rejected=False) up to the normal loop.
StartNormal ==
    /\ phase = "idle" /\ runs < MaxRuns
    /\ \E fs \in BOOLEAN :
          /\ full_sync' = fs
          /\ AfterLoop(ListOf(catalog, 1), 1, fs, load_tracker(tracker_file), {})
    /\ all_whisk_recipes' = ListOf(catalog, 1)
    /\ retry_rejected' = FALSE
    /\ runs' = runs + 1
    /\ tracker' = load_tracker(tracker_file)
    /\ stats' = ZeroStats
    /\ calls' = <<[op |-> "list", wid |-> 0, by |-> "start", ok |-> TRUE]>>
    /\ idx' = 1
    /\ processed_ids' = {}
    /\ UNCHANGED <<tracker_file, docs, catalog, clean>>
    /\ UNCHANGED aside

\* fetch_whisk_list raises: the exception leaves run_sync.
ListFetchRaises ==
    /\ phase = "idle" /\ runs < MaxRuns
    /\ \E fs \in BOOLEAN : full_sync' = fs
    /\ retry_rejected' = FALSE
    /\ runs' = runs + 1
    /\ clean' = FALSE
    /\ tracker' = load_tracker(tracker_file)
    /\ stats' = ZeroStats
    /\ calls' = <<[op |-> "list", wid |-> 0, by |-> "start", ok |-> FALSE]>>
    /\ outcome' = "raised"
    /\ all_whisk_recipes' = <<>>
    /\ idx' = 1
    /\ processed_ids' = {}
    /\ todo' = {}
    /\ UNCHANGED <<tracker_file, docs, catalog, phase>>
    /\ UNCHANGED aside

\* One iteration of the normal loop and, after the last one, the loop exit.
ProcessRecipe ==
    /\ phase = "process"
    /\ NextPageId(docs) <= MaxPage
    /\ \E fails \in FailSets :
          LET whisk_id == all_whisk_recipes[idx]
          IN \E s \in {ProcessItem(Start("process", fails), whisk_id,
                                   Entry(catalog[whisk_id]), tracker)} :
                /\ Commit(s)
                /\ AfterLoop(all_whisk_recipes, idx + 1, full_sync, tracker,
                             s.processed_ids)
    /\ idx' = idx + 1
    /\ UNCHANGED <<catalog, full_sync, retry_rejected, tracker,
                   all_whisk_recipes, runs>>
    /\ UNCHANGED aside

\* One iteration of the retry loop and, after the last one, the return.
RetryRecipe ==
    /\ phase = "retry"
    /\ NextPageId(docs) <= MaxPage
    /\ \E whisk_id \in todo, fails \in FailSets :
          /\ Commit(RetryItem(Start("retry", fails), whisk_id, Entry(catalog[whisk_id])))
          /\ AfterItem("retry", todo \ {whisk_id})
    /\ UNCHANGED <<catalog, full_sync, retry_rejected, tracker,
                   all_whisk_recipes, idx, runs>>
    /\ UNCHANGED aside

\* One iteration of the sweep and, after the last one, the return.
SweepRecipe ==
    /\ phase = "sweep"
    /\ \E wid \in todo, fails \in {F \in FailSets : F \subseteq {"archive"}} :
          /\ Commit(SweepItem(Start("sweep", fails), wid, tracker))
          /\ AfterItem("sweep", todo \ {wid})
    /\ UNCHANGED <<catalog, full_sync, retry_rejected, tracker,
                   all_whisk_recipes, idx, runs>>
    /\ UNCHANGED aside

Next ==
    \/ ImportCsv
    \/ AuthFails
    \/ StartRetry
    \/ StartNormal
    \/ ListFetchRaises
    \/ ProcessRecipe
    \/ RetryRecipe
    \/ SweepRecipe

Spec == Init /\ [][Next]_vars

\* The engine at rest, for the specifications of its parts.
RunParked ==
    /\ tracker_file = EmptyTracker
    /\ docs = InitDocs(EmptyTracker)
    /\ catalog = [i \in Ids |-> "absent"]
    /\ phase = "idle"
    /\ full_sync = FALSE
    /\ retry_rejected = FALSE
    /\ tracker = EmptyTracker
    /\ all_whisk_recipes = <<>>
    /\ idx = 1
    /\ processed_ids = {}
    /\ todo = {}
    /\ stats = ZeroStats
    /\ calls = <<>>
    /\ outcome = "none"
    /\ runs = 0
    /\ clean = TRUE


\* ------------------------------------------------- the tracker on its own
MaxUpserts == 2     \* calls of the tracker functions explored

\* Files the tracker functions start from: no record, a record the engine
\* mirrors, or a record of the CSV import (was_made set).
UpsertRecords(i) == InitRecords(i) \cup {CsvRecord("file_upload", i)}

UpsertFiles ==
    UNION {{f \in [S -> UNION {UpsertRecords(i) : i \in S}] :
              \A i \in S : f[i] \in UpsertRecords(i)} : S \in SUBSET Ids}

\* The optional arguments of a call: "None" stands for an argument that is
\* omitted or passed as None, "omitted" for status left to its default.
KeywordArg(name, value) ==
    IF value \in {"None", "omitted"} THEN EmptyTracker
    ELSE [k \in {name} |-> IF value = "True" THEN TRUE
                           ELSE IF value = "False" THEN FALSE ELSE value]

UpsertArgs ==
    {KeywordArg("image_type", i) @@ KeywordArg("status", st)
        @@ KeywordArg("recipe_video", v) @@ KeywordArg("instruction_photos", ph) :
        i \in {"None", "file_upload"}, st \in {"omitted", "updated", "rejected"},
        v \in {"None", "True", "False"}, ph \in {"None", "True"}}

\* Keywords the callers add to the declared ones.
ExtraKeywords == {{}, {"recipe_title"}, {"was_made", "recipe_title"}}

Upsert ==
    /\ up_count < MaxUpserts
    /\ \E id \in Ids, page \in {NoPage, FirstNewPage}, args \in UpsertArgs,
          extra \in ExtraKeywords :
          LET kw == {"whisk_recipe_id", "notion_page_id"} \cup DOMAIN args \cup extra
              r == add_or_update_record(up_file, id, page, kw, args)
          IN /\ up_file' = r.file
             /\ up_call' = [made |-> TRUE, op |-> "add_or_update_record",
                            whisk_recipe_id |-> id, notion_page_id |-> page,
                            args |-> args, raised |-> r.raised]
    /\ up_before' = up_file
    /\ up_count' = up_count + 1
    /\ UNCHANGED <<runVars, fetchVars, limiterVars, pureVars, pagingVars, overlapVars>>

Remove ==
    /\ up_count < MaxUpserts
    /\ \E id \in Ids :
          /\ up_file' = remove_record(up_file, id)
          /\ up_call' = [made |-> TRUE, op |-> "remove_record",
                         whisk_recipe_id |-> id, raised |-> FALSE]
    /\ up_before' = up_file
    /\ up_count' = up_count + 1
    /\ UNCHANGED <<runVars, fetchVars, limiterVars, pureVars, pagingVars, overlapVars>>

InitUpsert ==
    /\ RunParked /\ FetchParked /\ LimiterParked /\ PureParked /\ RestParked
    /\ up_file \in UpsertFiles
    /\ up_before = up_file
    /\ up_call = NoCall
    /\ up_count = 0

NextUpsert ==
    \/ Upsert
    \/ Remove

SpecUpsert == InitUpsert /\ [][NextUpsert]_vars


\* ------------------------------------------------ the source client alone
MaxRequests == 3    \* fetch calls of one run explored

\* run_sync gets its access token once, before the first request, and hands
\* the same value to every fetch call; tokens are numbered as handed out.
RunToken == 1
NoToken == 0

\* The answer of the source to a request: 401 for a token it does not accept,
\* 500 for a transient failure (a network error is raised the same way).
Respond(valid, token, fault) ==
    IF fault THEN 500 ELSE IF token \in valid THEN 200 ELSE 401

\* w carries the state of the client through one fetch call: valid, issued,
\* log, refreshes, and the locals new_token, status, raised.
Send(w, op, token, fault) ==
    LET st == Respond(w.valid, token, fault)
    IN [w EXCEPT !.log = Append(@, [op |-> op, token |-> token, status |-> st]),
                 !.status = st]

\* get_access_token, called for a refresh: a new token the source accepts, a
\* new token it does not accept, or no token.
get_access_token(w, grant) ==
    IF grant = "none" THEN [w EXCEPT !.refreshes = @ + 1, !.new_token = NoToken]
    ELSE [w EXCEPT !.refreshes = @ + 1,
                   !.issued = @ + 1,
                   !.valid = IF grant = "accepted" THEN @ \cup {w.issued + 1} ELSE @,
                   !.new_token = w.issued + 1]

_make_request_with_retry(w, op, token, fault1, grant, fault2) ==
    Eval(Send(w, op, token, fault1), LAMBDA w1 :
      IF w1.status = 200 THEN [w1 EXCEPT !.raised = FALSE]
      ELSE IF w1.status = 401
      THEN Eval(get_access_token(w1, grant), LAMBDA w2 :
             IF w2.new_token # NoToken
             THEN Eval(Send(w2, op, w2.new_token, fault2), LAMBDA w3 :
                    [w3 EXCEPT !.raised = (w3.status # 200)])
             ELSE [w2 EXCEPT !.raised = TRUE])
      ELSE [w1 EXCEPT !.raised = TRUE])

\* _get_token_if_missing(access_token): the token the caller passed.
_get_token_if_missing(access_token) == access_token

Grants == {"accepted", "rejected", "none"}

\* One fetch call made by run_sync with access_token = RunToken.
Fetch(op, fault1, grant, fault2) ==
    _make_request_with_retry(
        [valid |-> wf_valid, issued |-> wf_issued, log |-> wf_log,
         refreshes |-> wf_refreshes, new_token |-> NoToken, status |-> 0,
         raised |-> FALSE],
        op, _get_token_if_missing(RunToken), fault1, grant, fault2)

\* The variables after a fetch call; result is what the call hands to
\* run_sync: "value", "raised", "empty" ({}) or "false" (False).
AfterFetch(w, op, result) ==
    /\ wf_valid' = w.valid
    /\ wf_issued' = w.issued
    /\ wf_log' = w.log
    /\ wf_refreshes' = w.refreshes
    /\ wf_last' = [made |-> TRUE, op |-> op,
                   first |-> w.log[Len(wf_log) + 1].status,
                   sent |-> Len(w.log) - Len(wf_log),
                   refreshes |-> w.refreshes - wf_refreshes,
                   new_token |-> w.new_token,
                   last |-> w.status,
                   result |-> result]

FetchCalls == Cardinality({k \in 1..Len(wf_log) : wf_log[k].token = RunToken})

\* fetch_whisk_list in the paging loop of run_sync: an exception leaves
\* run_sync; a page without a cursor ends the loop.
FetchList ==
    /\ wf_state = "listing" /\ FetchCalls < MaxRequests
    /\ \E fault1 \in BOOLEAN, grant \in Grants, fault2 \in BOOLEAN,
          next_cursor \in BOOLEAN :
          LET w == Fetch("list", fault1, grant, fault2)
          IN /\ AfterFetch(w, "list", IF w.raised THEN "raised" ELSE "value")
             /\ wf_state' = IF w.raised THEN "raised"
                            ELSE IF next_cursor THEN "listing" ELSE "items"
    /\ UNCHANGED <<runVars, upsertVars, limiterVars, pureVars, pagingVars, overlapVars>>

\* fetch_recipe_details in a loop iteration: {} on any exception.
FetchDetails ==
    /\ wf_state = "items" /\ FetchCalls < MaxRequests
    /\ \E fault1 \in BOOLEAN, grant \in Grants, fault2 \in BOOLEAN :
          LET w == Fetch("details", fault1, grant, fault2)
          IN AfterFetch(w, "details", IF w.raised THEN "empty" ELSE "value")
    /\ UNCHANGED wf_state
    /\ UNCHANGED <<runVars, upsertVars, limiterVars, pureVars, pagingVars, overlapVars>>

\* fetch_recipe_review_status in a loop iteration: False on any exception.
FetchReviewStatus ==
    /\ wf_state = "items" /\ FetchCalls < MaxRequests
    /\ \E fault1 \in BOOLEAN, grant \in Grants, fault2 \in BOOLEAN :
          LET w == Fetch("review", fault1, grant, fault2)
          IN AfterFetch(w, "review", IF w.raised THEN "false" ELSE "value")
    /\ UNCHANGED wf_state
    /\ UNCHANGED <<runVars, upsertVars, limiterVars, pureVars, pagingVars, overlapVars>>

\* The source stops accepting the token of the run.
TokenExpires ==
    /\ wf_state \in {"listing", "items"}
    /\ RunToken \in wf_valid
    /\ wf_valid' = wf_valid \ {RunToken}
    /\ UNCHANGED <<wf_issued, wf_log, wf_refreshes, wf_state, wf_last>>
    /\ UNCHANGED <<runVars, upsertVars, limiterVars, pureVars, pagingVars, overlapVars>>

\* The loops are over: return stats.
RunReturns ==
    /\ wf_state = "items"
    /\ wf_state' = "returned"
    /\ UNCHANGED <<wf_valid, wf_issued, wf_log, wf_refreshes, wf_last>>
    /\ UNCHANGED <<runVars, upsertVars, limiterVars, pureVars, pagingVars, overlapVars>>

InitFetch ==
    /\ RunParked /\ UpsertParked /\ LimiterParked /\ PureParked /\ RestParked
    /\ wf_valid \in {{RunToken}, {}}
    /\ wf_issued = 1
    /\ wf_log = <<>>
    /\ wf_refreshes = 0
    /\ wf_state = "listing"
    /\ wf_last = NoCall

NextFetch ==
    \/ FetchList
    \/ FetchDetails
    \/ FetchReviewStatus
    \/ TokenExpires
    \/ RunReturns

SpecFetch == InitFetch /\ [][NextFetch]_vars


\* ------------------------------------- the gate in front of the destination
\* The bucket starts full (MAX_TOKENS); calls made before those explored may
\* have emptied it.
MaxCalls == 2           \* calls towards the destination explored

MAX_TOKENS == 30        \* 3.0 tokens
REFILL_RATE == 3        \* 3.0 tokens per second: 3 tenths per tick
ONE_TOKEN == 10         \* 1.0 token
max_retries == 5
upload_max_retries == 15

\* Ticks since last_refill when a call arrives.
Elapsed == {0, 10}

\* _wait_for_token: refill for the time elapsed, take a token when there is
\* one, otherwise sleep one tick and look again.  Returns the bucket and the
\* ticks slept.
RECURSIVE _wait_for_token(_, _, _)
_wait_for_token(tokens, elapsed, slept) ==
    LET refilled == IF elapsed > 0
                    THEN IF tokens + elapsed * REFILL_RATE < MAX_TOKENS
                         THEN tokens + elapsed * REFILL_RATE ELSE MAX_TOKENS
                    ELSE tokens
    IN IF refilled >= ONE_TOKEN
       THEN [tokens |-> refilled - ONE_TOKEN, slept |-> slept]
       ELSE _wait_for_token(refilled, 1, slept + 1)

\* What the destination answers to the successive invocations of one call:
\* 200, or an APIResponseError with code 429 or with another code (400).
Codes == {200, 429, 400}

Answers ==
    {[i \in 1..(max_retries + 1) |-> IF i <= k THEN 429 ELSE c] :
        k \in 0..(max_retries + 1), c \in {200, 400}}

\* Position of the first answer that is not 429 (one past the end if none).
FirstNot429(answers) ==
    IF \E i \in DOMAIN answers : answers[i] # 429
    THEN CHOOSE i \in DOMAIN answers :
            answers[i] # 429 /\ \A j \in 1..(i - 1) : answers[j] = 429
    ELSE Len(answers) + 1

\* if e.code == 429
RetriesEveryError(code) == TRUE

TooManyRequests(code) == code = 429

\* The loop of the wrapper from the given attempt on, and the final attempt
\* after it; waits are the seconds slept before each retry.
RECURSIVE Attempts(_, _, _, _)
Attempts(answers, retry_after, attempt, waits) ==
    LET code == answers[attempt + 1]
        done == [invocations |-> attempt + 1, waits |-> waits, code |-> code,
                 result |-> IF code = 200 THEN "returned" ELSE "raised"]
    IN IF attempt = max_retries THEN done
       ELSE IF code = 200 THEN done
       ELSE IF TooManyRequests(code)
            THEN Attempts(answers, retry_after, attempt + 1,
                          Append(waits, retry_after + attempt))
       ELSE done

\* The wrapper of a decorated function: one token, then the attempts.
rate_limit(tokens, elapsed, answers, retry_after) ==
    LET gate == _wait_for_token(tokens, elapsed, 0)
        r == Attempts(answers, retry_after, 0, <<>>)
    IN [tokens |-> gate.tokens, slept |-> gate.slept, gated |-> 1,
        invocations |-> r.invocations, waits |-> r.waits, code |-> r.code,
        result |-> r.result]

RateLimitedOps == {"create", "update", "append", "archive"}

\* A call of create_page_in_data_source, update_page_properties,
\* append_block_children or archive_page made in a loop iteration; the except
\* clause of the iteration counts an exception as one error.
DestinationCall ==
    /\ rl_calls < MaxCalls
    /\ \E op \in RateLimitedOps, elapsed \in Elapsed, answers \in Answers,
          retry_after \in {1, 2} :
          LET r == rate_limit(rl_tokens, elapsed, answers, retry_after)
              raised == r.result = "raised"
          IN /\ rl_tokens' = r.tokens
             /\ rl_errors' = rl_errors + (IF raised THEN 1 ELSE 0)
             /\ rl_last' = [made |-> TRUE, op |-> op, gated |-> r.gated,
                            sent |-> r.invocations, waits |-> r.waits,
                            slept |-> r.slept,
                            retry_after |-> retry_after, code |-> r.code,
                            result |-> r.result,
                            first_not_429 |-> FirstNot429(answers),
                            errors |-> IF raised THEN 1 ELSE 0]
    /\ rl_calls' = rl_calls + 1
    /\ UNCHANGED <<runVars, upsertVars, fetchVars, pureVars, pagingVars, overlapVars>>

\* The answers to the status polls of one upload: "pending", "uploaded",
\* "failed", "non200" (status code other than 200) or "raises".
PollAnswers ==
    {[i \in 1..upload_max_retries |-> IF i <= k THEN "pending" ELSE c] :
        k \in 0..upload_max_retries, c \in {"uploaded", "failed", "non200", "raises"}}

\* The answer to the initiation and, when it leaves the upload pending, the
\* answers to the polls.
UploadAnswers ==
    {<<init, CHOOSE a \in PollAnswers : a[1] = "raises">> :
        init \in {"raises", "noid", "uploaded", "failed"}}
    \cup {<<"pending", a>> : a \in PollAnswers}

\* The polling loop of upload_image_from_url from the given attempt on.
RECURSIVE Poll(_, _, _)
\* The loop handing out the file id when the polls are used up.
PollReturnsIdAtBound(status, answers, attempt) ==
    IF attempt = upload_max_retries THEN [ret |-> "file_id", polls |-> attempt]
    ELSE IF status = "uploaded" THEN [ret |-> "file_id", polls |-> attempt]
    ELSE IF status = "failed" THEN [ret |-> "None", polls |-> attempt]
    ELSE LET a == answers[attempt + 1]
         IN IF a = "raises" THEN [ret |-> "None", polls |-> attempt + 1]
            ELSE Poll(IF a = "non200" THEN status ELSE a, answers, attempt + 1)

Poll(status, answers, attempt) ==
    IF attempt = upload_max_retries THEN [ret |-> "None", polls |-> attempt]
    ELSE IF status = "uploaded" THEN [ret |-> "file_id", polls |-> attempt]
    ELSE IF status = "failed" THEN [ret |-> "None", polls |-> attempt]
    ELSE LET a == answers[attempt + 1]
         IN IF a = "raises" THEN [ret |-> "None", polls |-> attempt + 1]
            ELSE Poll(IF a = "non200" THEN status ELSE a, answers, attempt + 1)

\* upload_image_from_url: the initiation (which raises, returns no id, or
\* returns a status) and the polls; requests.post and requests.get are called
\* directly.
UploadFromUrl(init, answers) ==
    IF init \in {"raises", "noid"} THEN [ret |-> "None", sent |-> 1, gated |-> 0]
    ELSE LET r == Poll(init, answers, 0)
         IN [ret |-> r.ret, sent |-> 1 + r.polls, gated |-> 0]

UploadImage ==
    /\ rl_calls < MaxCalls
    /\ \E u \in UploadAnswers :
          LET r == UploadFromUrl(u[1], u[2])
          IN rl_last' = [made |-> TRUE, op |-> "upload", gated |-> r.gated,
                         sent |-> r.sent, result |-> r.ret,
                         init |-> u[1], answers |-> u[2]]
    /\ rl_calls' = rl_calls + 1
    /\ UNCHANGED <<rl_tokens, rl_errors>>
    /\ UNCHANGED <<runVars, upsertVars, fetchVars, pureVars, pagingVars, overlapVars>>

InitLimiter ==
    /\ RunParked /\ UpsertParked /\ FetchParked /\ PureParked /\ RestParked
    /\ rl_tokens \in {0, ONE_TOKEN, MAX_TOKENS}
    /\ rl_errors = 0
    /\ rl_calls = 0
    /\ rl_last = NoCall

NextLimiter ==
    \/ DestinationCall
    \/ UploadImage

SpecLimiter == InitLimiter /\ [][NextLimiter]_vars


\* ------------------------------------------- SpecPure: pure functions
MaxWords == 2       \* words of a recipe title
MaxImages == 2      \* images of a list-view entry

\* -- category resolution of an uploaded recipe
\* COLLECTIONS (collection name -> collection id), for the collections the
\* keyword table below leads to.
COLLECTIONS ==
    ("bread" :> "1050194936d2837722fa12008d5fb44ab75") @@
    ("fish" :> "1050194936d28377e96b315694423ffc8b4") @@
    ("poultry" :> "1050194936d28377b348b0bac230e07cb49") @@
    ("puddings" :> "1050194936d283774219b47ad8c8e7d6825") @@
    ("sandwiches" :> "1050194936d2837731a803afbd56abe6b72") @@
    ("vegetarian" :> "1050194936d283779368814889b4a9ada31")

\* CATEGORY_KEYWORDS in the order of the dict, one keyword per category
\* ("baguette" is a keyword of bread and of sandwiches).
CATEGORY_KEYWORDS ==
    << [category |-> "bread",      keywords |-> {"baguette"}],
       [category |-> "fish",       keywords |-> {"salmon"}],
       [category |-> "poultry",    keywords |-> {"chicken"}],
       [category |-> "puddings",   keywords |-> {"tart"}],
       [category |-> "sandwiches", keywords |-> {"baguette"}],
       [category |-> "vegetarian", keywords |-> {"tofu"}] >>

\* No category counted as a main dish.
NO_MAIN_DISH_CATEGORIES == {}

MAIN_DISH_CATEGORIES == {"fish", "poultry", "red_meat", "vegetarian"}

\* str.lower(), word by word: a title is a sequence of words.
lower(word) ==
    CASE word = "Salmon" -> "salmon"
      [] word = "Tart"   -> "tart"
      [] OTHER           -> word

\* keyword in recipe_name_lower (a keyword is one word here).
KeywordIn(keyword, recipe_name_lower) ==
    \E i \in 1..Len(recipe_name_lower) : recipe_name_lower[i] = keyword

\* First pass: the categories with a keyword in the title, in table order.
matched_categories(recipe_name_lower) ==
    LET hit(e) == \E k \in e.keywords : KeywordIn(k, recipe_name_lower)
        hits == SelectSeq(CATEGORY_KEYWORDS, hit)
    IN  [i \in 1..Len(hits) |-> hits[i].category]

\* Second pass: puddings is skipped for a main dish; an id is appended when
\* the collection exists and the id is not yet in the list.
RECURSIVE SecondPass(_, _, _)
SecondPass(matched, is_main_dish, collection_ids) ==
    IF matched = <<>> THEN collection_ids
    ELSE LET category == Head(matched)
             present == \E i \in 1..Len(collection_ids) :
                            collection_ids[i] = COLLECTIONS[category]
         IN  IF category = "puddings" /\ is_main_dish
             THEN SecondPass(Tail(matched), is_main_dish, collection_ids)
             ELSE IF category \in DOMAIN COLLECTIONS /\ ~present
             THEN SecondPass(Tail(matched), is_main_dish,
                             Append(collection_ids, COLLECTIONS[category]))
             ELSE SecondPass(Tail(matched), is_main_dish, collection_ids)

get_collection_id_for_recipe(recipe_name) ==
    LET recipe_name_lower == [i \in 1..Len(recipe_name) |-> lower(recipe_name[i])]
        matched == matched_categories(recipe_name_lower)
        is_main_dish == \E i \in 1..Len(matched) : matched[i] \in MAIN_DISH_CATEGORIES
    IN  SecondPass(matched, is_main_dish, <<>>)

\* The request as the endpoint receives it: a title of up to MaxWords words
\* and the category it carries ("None" when it carries none).
FrontendData ==
    [title : UNION {[1..n -> {"Salmon", "chicken", "Tart", "baguette", "tofu", "soup"}] :
                        n \in 0..MaxWords},
     category : {"None", "Fish", "poultry", "Starters"}]

\* The request in the form create_recipe_in_whisk takes: the title becomes
\* name; the category of the request is not copied.
transform_to_whisk_format(frontend_data) == [name |-> frontend_data.title]

\* payload.collectionIds of the recipe created in the source.
create_recipe_in_whisk(recipe_data) ==
    LET collection_ids == get_collection_id_for_recipe(recipe_data.name)
    IN  IF collection_ids # <<>> THEN collection_ids
        ELSE << COLLECTIONS["vegetarian"] >>

upload_recipe_to_whisk(recipe_data) ==
    create_recipe_in_whisk(transform_to_whisk_format(recipe_data))

\* -- Phase 1 validation
\* The arguments of validate_list_requirements as the source hands them
\* over: display_name is "None" when source or display_name is missing;
\* an image is "url" or "nourl" (url missing or empty).
ListArgs ==
    [display_name : {"None", "", "BBC Good Food"},
     images : UNION {[1..n -> {"url", "nourl"}] : n \in 0..MaxImages},
     collections : {"None", "empty", "nonempty"},
     ingredients : {<<>>, <<"flour">>}]

\* What the function reads of content: content.get('source', {}).get(
\* 'display_name'), content.get('images', []) with images[0].get('url'),
\* content.get('ingredients', []), each tested for truth.
ListContent(display_name, images, ingredients) ==
    [Valid EXCEPT !.source_name = display_name \notin {"None", ""},
                  !.image = images # <<>> /\ images[1] = "url",
                  !.ingredients = ingredients # <<>>]

ValidateList ==
    /\ \E a \in ListArgs :
        pf_last' = [made |-> TRUE, op |-> "validate_list_requirements",
                    args |-> a,
                    result |-> validate_list_requirements(
                                   ListContent(a.display_name, a.images,
                                               a.ingredients),
                                   a.collections)]
    /\ UNCHANGED <<runVars, upsertVars, fetchVars, limiterVars, pagingVars, overlapVars>>

ResolveCategory ==
    /\ \E frontend_data \in FrontendData :
        pf_last' = [made |-> TRUE, op |-> "upload_recipe_to_whisk",
                    args |-> frontend_data,
                    result |-> upload_recipe_to_whisk(frontend_data)]
    /\ UNCHANGED <<runVars, upsertVars, fetchVars, limiterVars, pagingVars, overlapVars>>

Categorise ==
    /\ \E recipe_name \in {f.title : f \in FrontendData} :
        pf_last' = [made |-> TRUE, op |-> "get_collection_id_for_recipe",
                    args |-> recipe_name,
                    result |-> get_collection_id_for_recipe(recipe_name)]
    /\ UNCHANGED <<runVars, upsertVars, fetchVars, limiterVars, pagingVars, overlapVars>>

InitPure ==
    /\ RunParked /\ UpsertParked /\ FetchParked /\ LimiterParked /\ RestParked
    /\ pf_last = NoCall

NextPure ==
    \/ ResolveCategory
    \/ ValidateList
    \/ Categorise

SpecPure == InitPure /\ [][NextPure]_vars

\* ------------------------------------------ SpecPaging: the paging loop
MaxLimit == 3           \* values of WHISK_FETCH_LIMIT explored: 1..MaxLimit
MaxCursor == 2          \* cursors the source hands out: 1..MaxCursor
MaxListRequests == 3    \* page requests counted

\* One iteration of "while True": fetch_whisk_list(limit, after_cursor)
\* raises, or returns a page of n recipes (at most limit) with the cursor c
\* of the next page (NoCursor when paging.cursors.after is missing); break
\* when there is no cursor, and in a run that is not a full sync when
\* len(all_whisk_recipes) >= limit.
FetchPage ==
    /\ pg_state = "paging"
    /\ \/ /\ pg_state' = "raised"
          /\ UNCHANGED <<pg_cursor, pg_fetched>>
       \/ \E n \in 0..pg_limit, c \in 0..MaxCursor :
            LET fetched == IF pg_fetched + n >= pg_limit THEN pg_limit
                           ELSE pg_fetched + n
            IN  /\ pg_fetched' = fetched
                /\ pg_cursor' = c
                /\ pg_state' = IF c = NoCursor THEN "done"
                               ELSE IF ~pg_full_sync /\ fetched >= pg_limit THEN "done"
                               ELSE "paging"
    /\ pg_requests' = IF pg_requests < MaxListRequests THEN pg_requests + 1
                      ELSE pg_requests
    /\ UNCHANGED <<pg_full_sync, pg_limit>>
    /\ UNCHANGED <<runVars, upsertVars, fetchVars, limiterVars, pureVars, overlapVars>>

InitPaging ==
    /\ RunParked /\ UpsertParked /\ FetchParked /\ LimiterParked /\ PureParked
    /\ OverlapParked
    /\ pg_full_sync \in BOOLEAN
    /\ pg_limit \in 1..MaxLimit
    /\ pg_cursor = NoCursor
    /\ pg_fetched = 0
    /\ pg_requests = 0
    /\ pg_state = "paging"

NextPaging ==
    \/ FetchPage

\* The loop goes on as long as it has not been left.
SpecPaging == InitPaging /\ [][NextPaging]_vars /\ WF_vars(NextPaging)

\* ------------------------------- SpecOverlap: two runs and one tracker file
\* trigger_sync_webhook hands every request's run_sync to the background
\* tasks; run_sync is a plain function, so two runs started by two requests
\* execute side by side.  Each run here makes one call of a tracker function.
OverlapRuns == {1, 2}

\* The call of run p, for the id p: remove_record, or add_or_update_record
\* with the declared keywords or with the keywords run_sync adds.
OverlapOps(p) ==
    {[op |-> "remove_record", whisk_recipe_id |-> p, notion_page_id |-> NoPage,
      kw |-> {"whisk_recipe_id"}, args |-> EmptyTracker]}
    \cup
    {[op |-> "add_or_update_record", whisk_recipe_id |-> p,
      notion_page_id |-> FirstNewPage,
      kw |-> {"whisk_recipe_id", "notion_page_id"} \cup DOMAIN args \cup extra,
      args |-> args] :
        args \in {KeywordArg("status", st) : st \in {"omitted", "updated"}},
        extra \in {{}, {"was_made", "recipe_title"}}}

\* What the call writes when it has loaded data; remove_record saves only
\* when the id is in the loaded data.
Applied(data, call) ==
    IF call.op = "remove_record" THEN remove_record(data, call.whisk_recipe_id)
    ELSE add_or_update_record(data, call.whisk_recipe_id, call.notion_page_id,
                              call.kw, call.args).file

\* data = load_tracker(), or the TypeError of a call with an undeclared
\* keyword, which ends the call before anything is loaded.
OverlapLoad(p) ==
    /\ ov_pc[p] = "call"
    /\ LET call == ov_op[p]
           raised == call.op = "add_or_update_record" /\ ~AcceptsKeywords(call.kw)
           data == load_tracker(ov_file)
           saves == IF call.op = "remove_record"
                    THEN call.whisk_recipe_id \in DOMAIN data ELSE TRUE
       IN IF raised
          THEN /\ ov_pc' = [ov_pc EXCEPT ![p] = "done"]
               /\ UNCHANGED ov_data
          ELSE /\ ov_data' = [ov_data EXCEPT ![p] = data]
               /\ ov_pc' = [ov_pc EXCEPT ![p] = IF saves THEN "loaded" ELSE "done"]
    /\ UNCHANGED <<ov_file, ov_start, ov_op>>
    /\ UNCHANGED <<runVars, upsertVars, fetchVars, limiterVars, pureVars, pagingVars>>

\* save_tracker(data) with the record set or deleted in the loaded data.
OverlapSave(p) ==
    /\ ov_pc[p] = "loaded"
    /\ ov_file' = Applied(ov_data[p], ov_op[p])
    /\ ov_pc' = [ov_pc EXCEPT ![p] = "done"]
    /\ UNCHANGED <<ov_start, ov_op, ov_data>>
    /\ UNCHANGED <<runVars, upsertVars, fetchVars, limiterVars, pureVars, pagingVars>>

InitOverlap ==
    /\ RunParked /\ UpsertParked /\ FetchParked /\ LimiterParked /\ PureParked
    /\ PagingParked
    /\ ov_file \in UpsertFiles
    /\ ov_start = ov_file
    /\ ov_op \in {f \in [OverlapRuns -> UNION {OverlapOps(p) : p \in OverlapRuns}] :
                    \A p \in OverlapRuns : f[p] \in OverlapOps(p)}
    /\ ov_pc = [p \in OverlapRuns |-> "call"]
    /\ ov_data = [p \in OverlapRuns |-> EmptyTracker]

NextOverlap ==
    \/ \E p \in OverlapRuns : OverlapLoad(p)
    \/ \E p \in OverlapRuns : OverlapSave(p)

SpecOverlap == InitOverlap /\ [][NextOverlap]_vars

\* ------------------------------------------------------------ properties
Returned == phase = "idle" /\ outcome = "returned"

CallsOf(wid, ops) == {k \in 1..Len(calls) : calls[k].wid = wid /\ calls[k].op \in ops}

RecordOf(file, wid) == IF wid \in DOMAIN file THEN file[wid] ELSE [status |-> "absent"]

Fetched == {all_whisk_recipes[k] : k \in 1..Len(all_whisk_recipes)}

PassesBothPhases(kind) == kind \in {"plain", "video", "photos", "made"}

\* C1: when a normal run returns after an earlier normal run against the same
\* catalog, every source and destination call of both runs having succeeded,
\* it reports created = 0 and updated = 0.
C1_SecondRunCreatesAndUpdatesNothing ==
    (Returned /\ runs >= 2 /\ clean) => (stats.created = 0 /\ stats.updated = 0)

C1_Witness ==
    /\ Returned /\ runs >= 2 /\ clean
    /\ \E i \in Ids : catalog[i] = "photos" /\ CallsOf(i, {"create"}) # {}
    /\ \E i \in Ids : catalog[i] \in {"video", "made"} /\ i \in Fetched

\* C2 (as amended): every record of the tracker file has a non-null
\* notion_page_id if and only if its status is new, updated or imported.
C2_PageIffMirroredOrImported ==
    \A i \in DOMAIN tracker_file :
        (tracker_file[i].notion_page_id # NoPage)
            <=> (tracker_file[i].status \in {"new", "updated", "imported"})

C2_Witness ==
    /\ Returned /\ ~retry_rejected
    /\ \E i \in DOMAIN tracker_file : tracker_file[i].status = "imported"
    /\ \E i \in Ids : i \in Fetched /\ i \in DOMAIN tracker /\ i \notin DOMAIN tracker_file

\* C2 (original): every record of the tracker file has a non-null
\* notion_page_id if and only if its status is new or updated.
C2_PageIffNewOrUpdated ==
    \A i \in DOMAIN tracker_file :
        (tracker_file[i].notion_page_id # NoPage)
            <=> (tracker_file[i].status \in {"new", "updated"})

\* C3: an entry rejected by Phase 1 or Phase 2 in a run has no destination
\* write (upload, create, update, append, archive) made for it in that run.
C3_RejectedEntryHasNoWrite ==
    \A k \in 1..Len(stats.rejection_details) :
        CallsOf(stats.rejection_details[k].id, WriteOps) = {}

\* C4: a record with status rejected has a null notion_page_id and no
\* non-archived destination document exists for its id.
C4_RejectedHasNoDocument ==
    \A i \in DOMAIN tracker_file :
        tracker_file[i].status = "rejected"
            => (tracker_file[i].notion_page_id = NoPage /\ LivePage(docs, i) = NoPage)

\* C5: when a destination write made for an entry failed during a run, the
\* entry's tracker record after the run is the record it had at the start.
C5_FailedWriteLeavesRecord ==
    Returned =>
        \A k \in 1..Len(calls) :
            (calls[k].op \in WriteOps /\ ~calls[k].ok)
                => RecordOf(tracker_file, calls[k].wid) = RecordOf(tracker, calls[k].wid)

\* C6: a full-sync run that starts with the tracker {A: updated with a page,
\* B: rejected}, fetches neither id and has no failing call ends with A's
\* document archived, A removed from the tracker, deleted = 1, B's record
\* unchanged and no destination call made for B.
C6_FullSyncDeletion ==
    \A a \in Ids, b \in Ids :
        (/\ Returned /\ full_sync /\ ~retry_rejected /\ AllOk(calls)
         /\ DOMAIN tracker = {a, b} /\ a # b
         /\ tracker[a].status = "updated" /\ tracker[a].notion_page_id # NoPage
         /\ tracker[b].status = "rejected"
         /\ a \notin Fetched /\ b \notin Fetched)
        => (/\ docs[tracker[a].notion_page_id].archived
            /\ a \notin DOMAIN tracker_file
            /\ stats.deleted = 1
            /\ RecordOf(tracker_file, b) = tracker[b]
            /\ CallsOf(b, WriteOps) = {})

C6_Witness ==
    /\ Returned /\ full_sync /\ ~retry_rejected /\ AllOk(calls)
    /\ DOMAIN tracker = {1, 2}
    /\ tracker[1].status = "updated" /\ tracker[2].status = "rejected"
    /\ Fetched = {}
    /\ CallsOf(1, {"archive"}) # {}

\* C7: during a run with full_sync = false no record that was in the tracker
\* at the start of the run is missing from the tracker file.
C7_NoRemovalWithoutFullSync ==
    (runs >= 1 /\ ~full_sync) => (DOMAIN tracker \subseteq DOMAIN tracker_file)

\* C8: the deletion sweep archives no entry whose id is in the list fetched
\* in that run.
C8_SweepSparesFetchedIds ==
    \A k \in 1..Len(calls) :
        (calls[k].by = "sweep" /\ calls[k].op = "archive") => calls[k].wid \notin Fetched

\* C9: during and after a retry-rejected run, every id whose record was not
\* rejected at the start (or that had no record) has the same record in the
\* tracker file and no destination write made for it; no list fetch and no
\* deletion sweep takes place.
C9_RetryTouchesOnlyRejected ==
    ((phase = "retry" \/ Returned) /\ retry_rejected) =>
        /\ \A i \in Ids :
              RecordOf(tracker, i).status # "rejected"
                  => (/\ RecordOf(tracker_file, i) = RecordOf(tracker, i)
                      /\ CallsOf(i, WriteOps) = {})
        /\ \A k \in 1..Len(calls) : calls[k].op # "list" /\ calls[k].by # "sweep"

C9_Witness ==
    /\ Returned /\ retry_rejected /\ full_sync
    /\ \E i \in Ids : RecordOf(tracker, i).status = "rejected"
                      /\ \E k \in CallsOf(i, {"create"}) : calls[k].ok
    /\ \E i \in Ids : RecordOf(tracker, i).status \in {"new", "updated"}
                      /\ PassesBothPhases(catalog[i])

\* C10: a normal run, all calls succeeding, whose list holds the single entry
\* E, E having no tracker record and passing both phases, makes exactly one
\* create for E, reports created = 1 and leaves one record for E with status
\* new and the page id returned by the create.
C10_CreateScenario ==
    \A E \in Ids :
        (/\ Returned /\ ~retry_rejected /\ AllOk(calls)
         /\ all_whisk_recipes = <<E>> /\ E \notin DOMAIN tracker
         /\ PassesBothPhases(catalog[E]))
        => (/\ Cardinality(CallsOf(E, {"create"})) = 1
            /\ stats.created = 1
            /\ E \in DOMAIN tracker_file
            /\ tracker_file[E].status = "new"
            /\ tracker_file[E].notion_page_id # NoPage
            /\ tracker_file[E].notion_page_id = LivePage(docs, E))

\* Ids for which a call of the current (or last) run failed.
FailedIds == {calls[k].wid : k \in {j \in 1..Len(calls) : ~calls[j].ok}}

\* C11: a normal run, all calls succeeding, whose list holds the single entry
\* F, F having a record with image_type external and a page id and the source
\* supplying an image (and no step images), reports updated = 1 and
\* created = 0 and leaves F's record with image_type file_upload and the same
\* page id.
C11_ImageMigrationScenario ==
    \A F \in Ids :
        (/\ Returned /\ ~retry_rejected /\ AllOk(calls)
         /\ all_whisk_recipes = <<F>> /\ F \in DOMAIN tracker
         /\ tracker[F].image_type = "external"
         /\ tracker[F].notion_page_id # NoPage
         /\ tracker[F].status # "rejected"
         /\ PassesBothPhases(catalog[F])
         /\ Entry(catalog[F]).image /\ ~Entry(catalog[F]).step_images)
        => (/\ stats.updated = 1
            /\ stats.created = 0
            /\ RecordOf(tracker_file, F).status # "absent"
            /\ tracker_file[F].image_type = "file_upload"
            /\ tracker_file[F].notion_page_id = tracker[F].notion_page_id)

\* C12: a normal run (not a full sync), all calls succeeding, whose list holds
\* the single entry G, G having a source name, an image and a collection but
\* no ingredients, reports rejected = 1 and errors = 0 with the one rejection
\* detail (G, "Missing Ingredients") and leaves a record for G with status
\* rejected and a null page id.
C12_RejectionScenario ==
    \A G \in Ids :
        (/\ Returned /\ ~retry_rejected /\ ~full_sync /\ AllOk(calls)
         /\ all_whisk_recipes = <<G>>
         /\ catalog[G] = "noingredients")
        => (/\ stats.rejected = 1
            /\ stats.errors = 0
            /\ stats.rejection_details = <<[id |-> G, reason |-> "Missing Ingredients"]>>
            /\ RecordOf(tracker_file, G).status = "rejected"
            /\ tracker_file[G].notion_page_id = NoPage)

\* C13: once the list is fetched (or the retry loop entered) the run does not
\* raise; when it has returned, every fetched entry was processed (it is in
\* processed_ids or among the rejections) and every entry for which a source
\* or destination call failed is counted in errors or rejected.
C13_EntryFailureCountedRunContinues ==
    /\ (phase # "idle") => outcome = "none"
    /\ Returned =>
         /\ ~retry_rejected =>
              \A i \in Fetched :
                  \/ i \in processed_ids
                  \/ \E k \in 1..Len(stats.rejection_details) :
                         stats.rejection_details[k].id = i
         /\ stats.errors + stats.rejected >= Cardinality(FailedIds)

\* C14: a run whose list holds the single entry E and in which a source or
\* destination call made for E failed returns with errors = 1.
C14_FailedCallIsOneError ==
    \A E \in Ids :
        (/\ Returned /\ ~retry_rejected /\ ~full_sync
         /\ all_whisk_recipes = <<E>>
         /\ Entry(catalog[E]).present
         /\ E \in FailedIds)
        => stats.errors = 1

\* C20: when the processing of an entry was cut short between a destination
\* write and the tracker update and the engine is run again (normal runs only,
\* no call failing, no CSV import), no source id has two non-archived
\* destination documents.
C20_NoSecondLiveDocument ==
    clean =>
        \A p \in DOMAIN docs, q \in DOMAIN docs :
            (docs[p].wid = docs[q].wid /\ ~docs[p].archived /\ ~docs[q].archived)
                => p = q

\* C19: after a call of add_or_update_record that was accepted, made for an id
\* that had a record, every field of the record that the call did not supply
\* (image_type, recipe_video, instruction_photos, was_made, status) has the
\* value it had, every supplied field has the supplied value, and the records
\* of the other ids are unchanged.
C19_UpsertPreservesUnsupplied ==
    (/\ up_call.made /\ up_call.op = "add_or_update_record" /\ ~up_call.raised
     /\ up_call.whisk_recipe_id \in DOMAIN up_before)
    => LET id == up_call.whisk_recipe_id
       IN /\ id \in DOMAIN up_file
          /\ \A f \in {"image_type", "recipe_video", "instruction_photos",
                       "was_made", "status"} :
                up_file[id][f] = IF f \in DOMAIN up_call.args THEN up_call.args[f]
                                 ELSE up_before[id][f]
          /\ up_file[id].notion_page_id = up_call.notion_page_id
          /\ \A j \in Ids \ {id} : RecordOf(up_file, j) = RecordOf(up_before, j)

\* C15: a fetch call (list, details, review status) whose request is answered
\* 401 calls get_access_token once and, given a token, sends the request once
\* more; when no token is given or the second request is answered 401 too,
\* the run is aborted.
C15_RefreshOnceRetryOnceElseFatal ==
    (wf_last.made /\ wf_last.first = 401)
    => /\ wf_last.refreshes = 1
       /\ wf_last.sent = IF wf_last.new_token = NoToken THEN 1 ELSE 2
       /\ (wf_last.new_token = NoToken \/ wf_last.last = 401) => wf_state = "raised"

\* C16: during one run get_access_token is called for a refresh at most once,
\* and once a request has been sent with a refreshed token no request is sent
\* with the token the run started with.
C16_RefreshAtMostOncePerRun ==
    /\ wf_refreshes <= 1
    /\ \A j \in 1..Len(wf_log), k \in 1..Len(wf_log) :
          (j < k /\ wf_log[j].token # RunToken) => wf_log[k].token # RunToken

C18_EveryRequestTakesAToken ==
    rl_last.made => rl_last.gated = rl_last.sent

\* Entries for which scenario D was triggered in the current (or last) run:
\* the normal loop called delete_recipe_from_notion for them.
RecreateTriggered ==
    {i \in Ids : \E k \in CallsOf(i, {"archive"}) : calls[k].by = "process"}

\* C22: scenario D is evaluated before A, B and C, and when it is triggered
\* for an entry none of the destination operations of A, B or C (an update
\* of page properties, an append of blocks) is executed for that entry in
\* that run, whether the recreate succeeds or fails.
C22_RecreateExcludesInPlaceUpgrades ==
    \A i \in RecreateTriggered : CallsOf(i, {"update", "append"}) = {}

\* The record the run loaded for i is that of a mirrored entry.
MirroredAtStart(i) ==
    i \in DOMAIN tracker /\ tracker[i].status \in {"new", "updated"}

\* Calls of the normal loop for i that succeeded.
DoneFor(i, ops) == {k \in CallsOf(i, ops) : calls[k].by = "process" /\ calls[k].ok}

\* An upgrade of the mirrored entry i went through at the destination in the
\* normal run that has returned: a page was created or updated for it and
\* no call made for it failed.
UpgradeApplied(i) ==
    /\ Returned /\ ~retry_rejected
    /\ MirroredAtStart(i)
    /\ i \notin FailedIds
    /\ DoneFor(i, {"create", "update"}) # {}

\* C23: after a run in which an upgrade scenario (A, B, C or D) was
\* successfully applied to a mirrored entry, the entry's record has status
\* updated and a non-null page id, and the entry is counted exactly once in
\* updated.
C23_UpgradeLeavesUpdatedRecord ==
    \A i \in Ids :
        UpgradeApplied(i) =>
            /\ RecordOf(tracker_file, i).status = "updated"
            /\ tracker_file[i].notion_page_id # NoPage
            /\ stats.updated = Cardinality({j \in Ids : UpgradeApplied(j)})

\* C24: the instruction-media migration acts as one replace: once the old
\* document is archived and the new one created, the old document is
\* archived, exactly one document was created, the tracker holds a record
\* for the id that references the new document, and instruction_photos is
\* true.
C24_MigrationIsOneReplace ==
    \A i \in RecreateTriggered :
        (DoneFor(i, {"archive"}) # {} /\ DoneFor(i, {"create"}) # {}) =>
            /\ docs[tracker[i].notion_page_id].archived
            /\ Cardinality(CallsOf(i, {"create"})) = 1
            /\ LivePage(docs, i) # NoPage
            /\ RecordOf(tracker_file, i).status # "absent"
            /\ tracker_file[i].notion_page_id = LivePage(docs, i)
            /\ tracker_file[i].instruction_photos

\* The in-place upgrade named by op is the only one detected for the
\* mirrored entry i of the given kind, and its destination calls succeeded.
OnlyUpgrade(i, kind, op) ==
    /\ ~retry_rejected /\ MirroredAtStart(i)
    /\ catalog[i] = kind
    /\ tracker[i].image_type # "external"
    /\ ~tracker[i].recipe_video /\ ~tracker[i].was_made
    /\ i \notin FailedIds
    /\ DoneFor(i, {op}) # {}

\* C25: each in-place upgrade sets exactly its own flag: a successful video
\* addition leaves recipe_video true, a successful review flip leaves
\* was_made true, and in both cases the page id, image_type and the other
\* flags of the record are as they were.
C25_UpgradeSetsOwnFlag ==
    \A i \in Ids :
        /\ OnlyUpgrade(i, "video", "append") =>
              /\ RecordOf(tracker_file, i).status # "absent"
              /\ tracker_file[i].recipe_video
              /\ tracker_file[i].was_made = tracker[i].was_made
              /\ tracker_file[i].notion_page_id = tracker[i].notion_page_id
              /\ tracker_file[i].image_type = tracker[i].image_type
              /\ tracker_file[i].instruction_photos = tracker[i].instruction_photos
        /\ OnlyUpgrade(i, "made", "update") =>
              /\ RecordOf(tracker_file, i).status # "absent"
              /\ tracker_file[i].was_made
              /\ tracker_file[i].recipe_video = tracker[i].recipe_video
              /\ tracker_file[i].notion_page_id = tracker[i].notion_page_id
              /\ tracker_file[i].image_type = tracker[i].image_type
              /\ tracker_file[i].instruction_photos = tracker[i].instruction_photos

\* The list view of entry i passes Phase 1.
PassesPhaseOne(i) ==
    LET e == Entry(catalog[i])
    IN  validate_list_requirements(e, IF e.collections THEN "nonempty" ELSE "empty").is_valid

\* The mirrored entry i passes Phase 1 in the list view (it reaches the
\* check of the upgrade scenarios) and the source gives no reason for any of
\* them: no step images the record lacks, no external image, no video link
\* the record lacks, no review the record lacks.
NoScenario(i) ==
    LET e == Entry(catalog[i])
        r == tracker[i]
    IN  /\ MirroredAtStart(i)
        /\ validate_list_requirements(e, IF e.collections THEN "nonempty" ELSE "empty").is_valid
        /\ r.instruction_photos \/ ~e.step_images
        /\ r.image_type # "external"
        /\ ~e.video \/ r.recipe_video
        /\ ~e.reviewed \/ r.was_made

\* C26: the iteration of a normal run for a mirrored entry for which no
\* upgrade scenario is detected makes no destination write, leaves the
\* tracker file (the entry's record and its status included) and the
\* documents as they are, and adds one to matched and nothing to any other
\* counter.
C26_NoScenarioIsMatchedOnly ==
    [][\A i \in Ids :
         (phase = "process" /\ all_whisk_recipes[idx] = i /\ NoScenario(i)) =>
            /\ stats' = [stats EXCEPT !.matched = @ + 1]
            /\ tracker_file' = tracker_file
            /\ docs' = docs
            /\ \A k \in (Len(calls) + 1)..Len(calls') : calls'[k].op \notin WriteOps]_vars

C26_Witness ==
    /\ Returned /\ ~retry_rejected
    /\ \E i \in processed_ids :
          /\ NoScenario(i)
          /\ stats.matched >= 1
          /\ tracker_file[i] = tracker[i]
          /\ CallsOf(i, {"review", "details"}) # {}

\* The record the run loaded for i is a rejection.
RejectedAtStart(i) == i \in DOMAIN tracker /\ tracker[i].status = "rejected"

\* C27: when a retry-rejected run has returned, the one rejected entry of
\* the tracker passing Phase 1 and Phase 2 with a category that resolves and
\* no call made for it failing, exactly one document was created for it, its
\* record has status new and the page id of that document, and
\* retried_success is 1.
C27_RetryRecoversRejected ==
    \A i \in Ids :
        (/\ Returned /\ retry_rejected
         /\ RejectedIds(tracker) = {i}
         /\ PassesBothPhases(catalog[i]) /\ Entry(catalog[i]).saved_names
         /\ i \notin FailedIds)
        => (/\ Cardinality(CallsOf(i, {"create"})) = 1
            /\ RecordOf(tracker_file, i).status = "new"
            /\ tracker_file[i].notion_page_id # NoPage
            /\ tracker_file[i].notion_page_id = LivePage(docs, i)
            /\ stats.retried_success = 1)

\* The retry iteration that takes i off the list finds the entry still
\* failing: the detail fetch returns nothing, or Phase 1 or Phase 2 fails,
\* or no category resolves.
StillFails(i) ==
    /\ phase = "retry" /\ i \in todo /\ i \notin todo'
    /\ \/ ~PassesBothPhases(catalog[i])
       \/ ~Entry(catalog[i]).saved_names
       \/ \E k \in (Len(calls) + 1)..Len(calls') :
             calls'[k].op = "details" /\ ~calls'[k].ok

\* C28: in retry-rejected mode the iteration for a rejected entry that
\* still fails leaves the tracker file (the record stays rejected with a
\* null page id) and the documents as they are, makes no destination write
\* and changes no counter (neither retried_success nor errors).
C28_StillFailingStaysRejected ==
    [][\A i \in Ids :
         StillFails(i) =>
            /\ tracker_file' = tracker_file
            /\ tracker_file[i].status = "rejected"
            /\ tracker_file[i].notion_page_id = NoPage
            /\ docs' = docs
            /\ stats' = stats
            /\ \A k \in (Len(calls) + 1)..Len(calls') : calls'[k].op \notin WriteOps]_vars

C28_Witness ==
    /\ Returned /\ retry_rejected
    /\ \E i \in Ids :
          /\ RejectedAtStart(i)
          /\ catalog[i] = "nosteps"
          /\ \E k \in CallsOf(i, {"details"}) : calls[k].ok
          /\ tracker_file[i] = tracker[i]
          /\ stats = ZeroStats
    /\ \E j \in Ids :
          /\ RejectedAtStart(j)
          /\ \E k \in CallsOf(j, {"details"}) : ~calls[k].ok

\* C29: when a normal run has returned whose list holds the single entry i,
\* i having a rejected record and now passing Phase 1 and Phase 2 and no
\* call made for it failing, the detail view was fetched, exactly one
\* document was created, the record has status new and the page id of that
\* document, and the run reports created = 1, updated = 0 and matched = 0.
C29_RejectedNowValidIsCreated ==
    \A i \in Ids :
        (/\ Returned /\ ~retry_rejected
         /\ all_whisk_recipes = <<i>>
         /\ RejectedAtStart(i)
         /\ PassesBothPhases(catalog[i])
         /\ i \notin FailedIds)
        => (/\ CallsOf(i, {"details"}) # {}
            /\ Cardinality(CallsOf(i, {"create"})) = 1
            /\ RecordOf(tracker_file, i).status = "new"
            /\ tracker_file[i].notion_page_id # NoPage
            /\ tracker_file[i].notion_page_id = LivePage(docs, i)
            /\ stats.created = 1 /\ stats.updated = 0 /\ stats.matched = 0)

\* C31: Phase 2 is applied only to entries without a record or with a
\* rejected one: no rejection with a Phase 2 reason ("Missing Instructions",
\* "Failed to fetch details") is reported for an entry whose record is not a
\* rejection, and no such record is turned into a rejection.
C31_PhaseTwoOnlyForNewEntries ==
    /\ \A k \in 1..Len(stats.rejection_details) :
          LET d == stats.rejection_details[k]
          IN  d.reason \in {"Missing Instructions", "Failed to fetch details"}
                 => (d.id \notin DOMAIN tracker \/ RejectedAtStart(d.id))
    /\ \A i \in DOMAIN tracker :
          (~RejectedAtStart(i) /\ PassesPhaseOne(i))
             => RecordOf(tracker_file, i).status # "rejected"

\* A mirrored entry that has lost its steps, and one whose detail fetch
\* failed, went through a normal run without a rejection.
C31_Witness ==
    /\ Returned /\ ~retry_rejected
    /\ stats.rejected = 0 /\ stats.matched >= 1
    /\ \E i \in processed_ids :
          /\ i \in DOMAIN tracker /\ ~RejectedAtStart(i)
          /\ catalog[i] = "nosteps"
          /\ \E k \in CallsOf(i, {"details"}) : calls[k].ok
    /\ \E j \in processed_ids :
          /\ j \in DOMAIN tracker /\ ~RejectedAtStart(j)
          /\ \E k \in CallsOf(j, {"details"}) : ~calls[k].ok

\* The import status the uploader holds after j polls: that of the
\* initiation, replaced by each poll answered with 200.
RECURSIVE StatusAfter(_, _, _)
StatusAfter(init, answers, j) ==
    IF j = 0 THEN init
    ELSE IF answers[j] \in {"non200", "raises"} THEN StatusAfter(init, answers, j - 1)
    ELSE answers[j]

\* C33: upload_image_from_url ends after at most 15 status polls; it returns
\* the file id only if the status was seen as uploaded, and returns None
\* when the status is failed, when the polls are used up with the import
\* still pending, when the initiation returns no id, and when a request
\* raises.
C33_UploadPollingBounded ==
    (rl_last.made /\ rl_last.op = "upload") =>
        LET init == rl_last.init
            a == rl_last.answers
            polls == rl_last.sent - 1
            seen(status) == \E j \in 0..polls : StatusAfter(init, a, j) = status
        IN  /\ polls \in 0..upload_max_retries
            /\ rl_last.result \in {"file_id", "None"}
            /\ rl_last.result = "file_id" => seen("uploaded")
            /\ seen("failed") => rl_last.result = "None"
            /\ (polls = upload_max_retries /\ StatusAfter(init, a, polls) = "pending")
                  => rl_last.result = "None"
            /\ init = "noid" => rl_last.result = "None"
            /\ (init = "raises" \/ \E j \in 1..polls : a[j] = "raises")
                  => rl_last.result = "None"

\* An import that is still pending at the fifteenth poll.
C33_Witness ==
    /\ rl_last.made /\ rl_last.op = "upload"
    /\ rl_last.init = "pending"
    /\ \A j \in 1..upload_max_retries : rl_last.answers[j] = "pending"
    /\ rl_last.sent = 1 + upload_max_retries
    /\ rl_last.result = "None"

\* The non-archived documents of source id i.
LivePages(i) == {p \in DOMAIN docs : docs[p].wid = i /\ ~docs[p].archived}

\* C35: between runs, after normal runs in which every call succeeded, each
\* source id has at most one non-archived document, and that document is
\* the one the id's tracker record refers to.
C35_OneLiveDocumentReferenced ==
    (clean /\ phase = "idle") =>
        \A i \in Ids :
            /\ Cardinality(LivePages(i)) <= 1
            /\ \A p \in LivePages(i) :
                  /\ RecordOf(tracker_file, i).status # "absent"
                  /\ tracker_file[i].notion_page_id = p

\* C36: when a normal run has returned, created + updated + matched +
\* rejected + errors equals the number of fetched entries (every fetched
\* entry has an id): each entry is counted in exactly one of the five.
C36_EveryEntryCountedOnce ==
    (Returned /\ ~retry_rejected) =>
        stats.created + stats.updated + stats.matched + stats.rejected + stats.errors
            = Len(all_whisk_recipes)

\* C37: the step of a run whose initial authentication fails returns
\* statistics with errors = 1, makes no source fetch and no destination
\* call, and leaves the tracker file and the documents as they are.
C37_AuthFailureAbortsRun ==
    [][(outcome' = "authfail" /\ runs' = runs + 1) =>
          /\ stats'.errors = 1
          /\ calls' = <<>>
          /\ tracker_file' = tracker_file
          /\ docs' = docs
          /\ phase' = "idle"]_vars

C37_Witness ==
    /\ outcome = "authfail" /\ phase = "idle" /\ runs >= 1
    /\ stats.errors = 1
    /\ calls = <<>>
    /\ \E i \in DOMAIN tracker_file : tracker_file[i].status = "rejected"
    /\ \E i \in Ids : Entry(catalog[i]).present

\* Archive calls of the deletion sweep with the given outcome.
SweepArchives(ok) ==
    {k \in 1..Len(calls) :
        calls[k].op = "archive" /\ calls[k].by = "sweep" /\ calls[k].ok = ok}

\* C38: in the deletion sweep an entry whose document could not be archived
\* keeps its tracker record and is not counted in deleted; deleted equals
\* the number of documents the sweep archived; and the sweep goes on: when
\* the run has returned, an archive call was made for every mirrored record
\* whose id was not in the list.
C38_FailedArchiveKeepsRecord ==
    /\ \A k \in SweepArchives(FALSE) :
          /\ RecordOf(tracker_file, calls[k].wid).status # "absent"
          /\ tracker_file[calls[k].wid] = tracker[calls[k].wid]
    /\ stats.deleted = Cardinality(SweepArchives(TRUE))
    /\ (Returned /\ full_sync /\ ~retry_rejected) =>
          \A i \in (DOMAIN tracker) \ processed_ids :
              (~RejectedAtStart(i) /\ tracker[i].notion_page_id # NoPage)
                 => \E k \in CallsOf(i, {"archive"}) : calls[k].by = "sweep"

\* A sweep of two documents in which one archive call failed and the other
\* succeeded.
C38_Witness ==
    /\ Returned /\ full_sync /\ ~retry_rejected
    /\ stats.deleted = 1
    /\ \E k \in SweepArchives(FALSE), m \in SweepArchives(TRUE) :
          /\ calls[k].wid # calls[m].wid
          /\ calls[k].wid \in DOMAIN tracker_file
          /\ calls[m].wid \notin DOMAIN tracker_file

\* -- properties of SpecPure
\* The collection a supplied category resolves to in the name -> id map:
\* looked up as written, then lower-cased with spaces as underscores (the
\* keys of the map are written that way); "None" when it does not resolve.
ResolvesTo(category) ==
    IF category \in DOMAIN COLLECTIONS THEN category
    ELSE IF category = "Fish" THEN "fish"
    ELSE "None"

\* C21: category resolution follows explicit category > title keyword match
\* > fixed default: a supplied category that resolves in the name -> id map
\* is used alone; otherwise the keyword matches of the title; otherwise the
\* fixed default; the result is never empty.
C21_CategoryPrecedence ==
    (pf_last.made /\ pf_last.op = "upload_recipe_to_whisk") =>
        LET explicit == ResolvesTo(pf_last.args.category)
            matches == get_collection_id_for_recipe(pf_last.args.title)
        IN  /\ pf_last.result # <<>>
            /\ pf_last.result =
                 IF explicit # "None" THEN << COLLECTIONS[explicit] >>
                 ELSE IF matches # <<>> THEN matches
                 ELSE << COLLECTIONS["vegetarian"] >>

\* C30: validate_list_requirements rejects exactly when the display name is
\* missing, or there is no first image with a url, or the collection list
\* is empty (a check skipped only when collections is None), or the
\* ingredient list is empty; the reason is that of the first failing check
\* in this order; otherwise it returns (True, None).
C30_ListRequirements ==
    (pf_last.made /\ pf_last.op = "validate_list_requirements") =>
        LET a == pf_last.args
            no_name == a.display_name = "None" \/ a.display_name = ""
            no_image == Len(a.images) = 0 \/ a.images[1] = "nourl"
            no_category == a.collections = "empty"
            no_ingredients == Len(a.ingredients) = 0
        IN  /\ pf_last.result.is_valid =
                  ~(no_name \/ no_image \/ no_category \/ no_ingredients)
            /\ pf_last.result.reason =
                  CASE no_name        -> "Missing Source Name"
                    [] no_image       -> "Missing Image"
                    [] no_category    -> "Missing Category"
                    [] no_ingredients -> "Missing Ingredients"
                    [] OTHER          -> "None"

\* An entry that fails the category check and the ingredient check is
\* rejected for its category.
C30_Witness ==
    /\ pf_last.made /\ pf_last.op = "validate_list_requirements"
    /\ pf_last.args.display_name = "BBC Good Food"
    /\ pf_last.args.images = <<"url", "nourl">>
    /\ pf_last.args.collections = "empty"
    /\ pf_last.args.ingredients = <<>>
    /\ pf_last.result = [is_valid |-> FALSE, reason |-> "Missing Category"]

\* C34: get_collection_id_for_recipe returns the collection ids of all
\* categories with a keyword contained in the lower-cased title, without
\* duplicates, puddings being left out when the title also matches fish,
\* poultry, red_meat or vegetarian; it returns the empty list when nothing
\* matches.
C34_KeywordCategorisation ==
    (pf_last.made /\ pf_last.op = "get_collection_id_for_recipe") =>
        LET title == pf_last.args
            ids == pf_last.result
            words == {lower(title[i]) : i \in 1..Len(title)}
            matched == {CATEGORY_KEYWORDS[n].category :
                           n \in {m \in 1..Len(CATEGORY_KEYWORDS) :
                                     CATEGORY_KEYWORDS[m].keywords \cap words # {}}}
            main == matched \cap {"fish", "poultry", "red_meat", "vegetarian"} # {}
            kept == IF main THEN matched \ {"puddings"} ELSE matched
        IN  /\ {ids[n] : n \in 1..Len(ids)} = {COLLECTIONS[c] : c \in kept}
            /\ \A m, n \in 1..Len(ids) : ids[m] = ids[n] => m = n
            /\ (matched = {}) => ids = <<>>

\* A chicken tart is filed under poultry alone; a baguette under bread and
\* sandwiches.
C34_Witness ==
    /\ pf_last.made /\ pf_last.op = "get_collection_id_for_recipe"
    /\ pf_last.args = <<"chicken", "Tart">>
    /\ pf_last.result = << COLLECTIONS["poultry"] >>

\* -- properties of SpecPaging
\* C32: the paging loop of a run that is not a full sync ends, whatever
\* pages the source returns: it never pages indefinitely.
C32_PagingEnds ==
    ~pg_full_sync => <>(pg_state # "paging")

\* -- properties of SpecOverlap
\* C39: when two overlapping runs have each finished a tracker call for an
\* id of its own, the tracker file holds for each id what that call alone
\* leaves there: neither the upsert nor the removal of a run is lost.
C39_NoLostUpdate ==
    (\A p \in OverlapRuns : ov_pc[p] = "done") =>
        \A p \in OverlapRuns :
            RecordOf(ov_file, p) = RecordOf(Applied(ov_start, ov_op[p]), p)

====
